---- MODULE Spec2Model ----
(***************************************************************************)
(* State-machine model of the browser scripts of CodeSanctuary:            *)
(*   - SessionTimer (src/unnamed/part_000, class SessionTimer)             *)
(*   - the outbound HTTP requests of src/therapy/static/therapy/js/main.js *)
(*     and of TherapeuticApp (src/unnamed/part_001)                        *)
(***************************************************************************)
EXTENDS Integers, Sequences, FiniteSets, TLC

(***************************************************************************)
(* Bounds of the model.                                                    *)
(***************************************************************************)
\* Session lengths 1..MaxMinutes minutes are tried besides the shipped one.
MaxMinutes == 2
\* start() is no longer issued once remaining has sunk to -MaxOverrun.
MaxOverrun == 2
\* At most MaxRequests HTTP requests are sent by one page.
MaxRequests == 2
\* At most MaxExercises breathing exercises are started.
MaxExercises == 3
\* The breathing clock runs for MaxQuarters steps of a quarter of a minute.
MaxQuarters == 7
\* The validated form has MaxFields fields.
MaxFields == 2
\* The form is submitted at most MaxFailedSubmits times while invalid.
MaxFailedSubmits == 3
\* The site is open in MaxTabs tabs that share localStorage.
MaxTabs == 2
\* The activity interval fires at most MaxTicks times, all tabs taken together,
\* after the model's start.
MaxTicks == 4
\* The check-in textarea holds at most MaxText code units.
MaxText == 2
\* The textarea receives at most MaxInputs input events.
MaxInputs == 3
\* The autosave clock runs for MaxHalfSeconds steps of half a second.
MaxHalfSeconds == 9
\* The reminder clock runs for MaxSlots steps of five minutes.
MaxSlots == 12

(***************************************************************************)
(* Program constants.                                                      *)
(***************************************************************************)
\* constructor(duration = 25), new SessionTimer(25)
DefaultMinutes == 25
\* this.duration = duration * 60; Math.floor(this.remaining / 60); % 60
SecondsPerMinute == 60
\* this.timerInterval = null
null == 0

Durations == (1..MaxMinutes) \cup {DefaultMinutes}

VARIABLES
    duration,       \* this.duration, seconds
    remaining,      \* this.remaining, seconds
    isRunning,      \* this.isRunning
    timerInterval,  \* this.timerInterval: null or the handle setInterval returned
    intervals,      \* the host's list of active repeating callbacks (handles)
    display,        \* <<text of .timer-minutes, text of .timer-seconds>>, <<>> if absent
    hasContainer,   \* whether the page holds #sessionTimer
    hasAudio,       \* whether window.AudioContext or webkitAudioContext exists
    threw,          \* whether the handler that ran last ended in an uncaught error
    out,            \* notifications shown by the handler that ran last
    beeps,          \* tones started by the handler that ran last
    last,           \* the handler that ran last and the timer it was called on
    ticks           \* tick callbacks delivered since construction or the last reset

timerVars == <<duration, remaining, isRunning, timerInterval, intervals,
               display, hasContainer, hasAudio, threw, out, beeps, last, ticks>>

VARIABLES
    csrfToken,      \* whether window.csrfToken is set (the page renders the token)
    metaToken,      \* whether the page holds <meta name="csrf-token">
    formToken,      \* whether #quickCheckinForm holds the token's hidden input
    hasApp,         \* whether the page loads the TherapeuticApp script
    onDashboard,    \* whether location.pathname contains "dashboard"
    triedInside,    \* whether the .mark-tried-btn sits inside .strategies-container
    triedAttached,  \* whether that button is still in the document
    reloadTimers,   \* pending setTimeout(() => location.reload(), 1000)
    pulseTimers,    \* pending timeouts of recordEmotion's visual feedback
    requests,       \* the HTTP requests in flight
    nextReq,        \* number of HTTP requests sent so far
    notes,          \* notifications shown by the HTTP handler that ran last
    lastHttp,       \* the HTTP event handled last
    submitBtn,      \* the quick check-in form's submit button
    loading,        \* class "loading" on .strategies-container
    strategies,     \* what .strategies-container shows
    triedBtn,       \* a .mark-tried-btn: <<disabled, html>>
    loadBtn,        \* the .load-more-strategies button
    filters         \* the values of the .strategy-filter selects, "" while
                    \* nothing is selected: [type, emotion, duration]

httpVars == <<csrfToken, metaToken, formToken, requests, nextReq, notes, lastHttp, submitBtn,
              loading, strategies, triedBtn, loadBtn, filters,
              hasApp, onDashboard, triedInside, triedAttached, reloadTimers,
              pulseTimers>>

VARIABLES
    localStorage,   \* window.localStorage: key -> [has, value]
    bodyClass,      \* document.body.classList of each open tab, a set of names
    now             \* Date.now(), in milliseconds since the model's start

envVars == <<localStorage, bodyClass, now>>

VARIABLES
    scrollReminded  \* whether initGentleReminders' lastScrollReminder is no
                    \* more than five minutes ago

pageVars == <<scrollReminded>>

VARIABLES
    gentleMode,     \* TherapeuticApp.gentleMode, of each open tab
    highContrast,   \* TherapeuticApp.highContrast, of each tab
    reminderDue,    \* when the reminder interval of each tab fires next
    reminderTimes,  \* when the last two periodic reminders of each tab were shown
    hidden,         \* document.hidden of each tab
    wasAway,        \* window.wasAway of each tab
    formField,      \* the required field of the form validated last: [error, message]
    appNotes,       \* gentle notifications shown by the handler that ran last
    appLast         \* the TherapeuticApp handler that ran last, and the tab it ran in

appOwn == <<gentleMode, highContrast, reminderDue, reminderTimes, hidden, wasAway,
            appNotes, appLast>>

appVars == <<appOwn, formField>>

VARIABLES
    themeClasses,   \* document.body.classList of each open tab of the site
    prefersDark,    \* matchMedia('(prefers-color-scheme: dark)').matches
    hasThemeToggle, \* whether the pages have the #themeToggle element
    themeNotes,     \* notifications shown by the theme handler that ran last
    themeLast       \* the theme handler that ran last and the one before it

themeVars == <<themeClasses, prefersDark, hasThemeToggle, themeNotes, themeLast>>

VARIABLES
    textarea,       \* the value of the .gentle-textarea of the check-in form
    autosaveTimer,  \* the handle held by initCheckinForm's autosaveTimer
    timeouts,       \* the pending setTimeout(saveDraft) calls: [id, due]
    draftNotes,     \* notifications shown by the draft handler that ran last
    draftLast       \* the draft handler that ran last, and the burst so far

draftVars == <<textarea, autosaveTimer, timeouts, draftNotes, draftLast>>

VARIABLES
    today,          \* the index in Days of the current date
    activeTime,     \* initializeActivityTracking's activeTime, of each tab
    tickRead,       \* of each tab: what its interval callback has read so far
    completion,     \* the .mark-complete button of the page and its bars
    moodSelector,   \* the .mood-btn that is active and the value of #moodInput
    activityNotes,  \* notifications shown by the activity step that ran last
    activityLast    \* the activity step that ran last, and the ticks so far

activityVars == <<today, activeTime, tickRead, completion, moodSelector,
                  activityNotes, activityLast>>

VARIABLES
    fieldValue,     \* the value of each required .form-control of the form
    isInvalid,      \* whether each field carries the class is-invalid
    feedback,       \* the .invalid-feedback elements in each field's parent
    wasValidated,   \* whether the form carries the class was-validated
    formBtn,        \* the form's submit button: [disabled, html]
    formLast        \* the form handler that ran last, and what it ran on

formVars == <<fieldValue, isInvalid, feedback, wasValidated, formBtn, formLast>>

VARIABLES
    isBreathing,    \* initializeBreathingExercise's isBreathing
    breathInterval, \* the handle held by breathInterval
    breathTimeouts, \* the pending auto-stop timeouts: [id, due]
    instructions,   \* number of .breathing-instructions blocks in the document
    animation,      \* breathingCircle.style.animation
    breathBtn,      \* the text of #startBreathing
    breathNotes,    \* notifications shown by the breathing handler that ran last
    breathLast      \* the breathing handler that ran last, and the exercise so far

breathVars == <<isBreathing, breathInterval, breathTimeouts, instructions, animation,
                breathBtn, breathNotes, breathLast>>

vars == <<timerVars, httpVars, envVars, pageVars, appVars,
         themeVars, draftVars, activityVars, formVars, breathVars>>

(***************************************************************************)
(* Number formatting used by the display.                                  *)
(***************************************************************************)
Digit == <<"0", "1", "2", "3", "4", "5", "6", "7", "8", "9">>

RECURSIVE digits(_)
digits(n) == IF n < 10 THEN Digit[n + 1]
             ELSE digits(n \div 10) \o Digit[(n % 10) + 1]

\* Number.prototype.toString() of an integer
toString(n) == IF n < 0 THEN "-" \o digits(-n) ELSE digits(n)

\* String.prototype.padStart(targetLength, padString), one-character padString
RECURSIVE padStart(_, _, _)
padStart(s, targetLength, padString) ==
    IF Len(s) >= targetLength THEN s
    ELSE padStart(padString \o s, targetLength, padString)

\* Math.floor(a / b) for b > 0
floorDiv(a, b) == a \div b

\* The JavaScript remainder a % b for b > 0: the result has the sign of a.
jsRem(a, b) == IF a >= 0 THEN a % b ELSE -((-a) % b)

(***************************************************************************)
(* The strings the scripts store, parse and encode are sequences of UTF-16 *)
(* code units.                                                             *)
(***************************************************************************)
\* the characters of the code units 32 to 95, and of 97 to 126
AsciiLow == " !\"#$%&'()*+,-./0123456789:;<=>?@ABCDEFGHIJKLMNOPQRSTUVWXYZ[\\]^_"

AsciiHigh == "abcdefghijklmnopqrstuvwxyz{|}~"

\* the code unit of each of them
charCodes ==
    [c \in {SubSeq(AsciiLow, i, i) : i \in 1..Len(AsciiLow)}
               \cup {SubSeq(AsciiHigh, i, i) : i \in 1..Len(AsciiHigh)} |->
        IF \E i \in 1..Len(AsciiLow) : SubSeq(AsciiLow, i, i) = c
        THEN 31 + (CHOOSE i \in 1..Len(AsciiLow) : SubSeq(AsciiLow, i, i) = c)
        ELSE 96 + (CHOOSE i \in 1..Len(AsciiHigh) : SubSeq(AsciiHigh, i, i) = c)]

\* String.prototype.charCodeAt of a one-character ASCII string
charCodeAt(c) == charCodes[c]

\* the code units of the string written s
Str(s) == [i \in 1..Len(s) |-> charCodeAt(SubSeq(s, i, i))]

(***************************************************************************)
(* SessionTimer: the methods, as functions of the timer object t (together *)
(* with the host state they touch: interval list, DOM text, notifications).*)
(***************************************************************************)
showNotification(t, message, type) ==
    [t EXCEPT !.out = Append(@, [message |-> message, type |-> type])]

\* setInterval returns a handle that identifies no other live callback; the
\* model takes the least positive handle that is neither live nor still held.
setInterval(t) ==
    LET used == t.intervals \cup {t.timerInterval}
    IN  CHOOSE id \in 1..(Cardinality(used) + 1) :
            /\ id \notin used
            /\ \A j \in 1..(id - 1) : j \in used

clearInterval(t, id) == [t EXCEPT !.intervals = @ \ {id}]

\* start() that restarts the countdown from the full duration.
startFromDuration(t) ==
    IF ~t.isRunning
    THEN LET id == setInterval(t)
             t1 == [t EXCEPT !.isRunning = TRUE,
                             !.timerInterval = id,
                             !.intervals = @ \cup {id},
                             !.remaining = t.duration]
         IN  showNotification(t1, "Focus session started!", "success")
    ELSE t

\* start() without the isRunning guard.
startUnguarded(t) ==
    LET id == setInterval(t)
        t1 == [t EXCEPT !.isRunning = TRUE,
                        !.timerInterval = id,
                        !.intervals = @ \cup {id}]
    IN  showNotification(t1, "Focus session started!", "success")

start(t) ==
    IF ~t.isRunning
    THEN LET id == setInterval(t)
             t1 == [t EXCEPT !.isRunning = TRUE,
                             !.timerInterval = id,
                             !.intervals = @ \cup {id}]
         IN  showNotification(t1, "Focus session started!", "success")
    ELSE t

\* pause() that forgets clearInterval.
pauseNoClear(t) ==
    LET t1 == [t EXCEPT !.isRunning = FALSE]
    IN  IF t1.timerInterval # null
        THEN showNotification(t1, "Session paused", "warning")
        ELSE t1

pause(t) ==
    LET t1 == [t EXCEPT !.isRunning = FALSE]
    IN  IF t1.timerInterval # null
        THEN showNotification(clearInterval(t1, t1.timerInterval),
                              "Session paused", "warning")
        ELSE t1

updateDisplay(t) ==
    LET minutes == floorDiv(t.remaining, SecondsPerMinute)
        seconds == jsRem(t.remaining, SecondsPerMinute)
    IN  IF t.display # <<>>
        THEN [t EXCEPT !.display = <<padStart(toString(minutes), 2, "0"),
                                     padStart(toString(seconds), 2, "0")>>]
        ELSE t

\* reset() that forgets to restore remaining.
resetNoRestore(t) ==
    showNotification(updateDisplay(pause(t)), "Session reset", "info")

reset(t) ==
    LET t1 == pause(t)
        t2 == [t1 EXCEPT !.remaining = t1.duration]
    IN  showNotification(updateDisplay(t2), "Session reset", "info")

\* new (window.AudioContext || window.webkitAudioContext)() is a TypeError
\* where neither exists; nothing catches it
playCompletionSound(t) ==
    IF t.audio THEN [t EXCEPT !.beeps = @ + 1] ELSE [t EXCEPT !.threw = TRUE]

\* The message's leading emoji is left out of the model's string.
complete(t) ==
    playCompletionSound(
        showNotification(pause(t), "Session complete! Time for a break!", "success"))

tick(t) ==
    LET t1 == updateDisplay([t EXCEPT !.remaining = @ - 1])
    IN  IF t1.remaining <= 0 THEN complete(t1) ELSE t1

\* constructor(duration) followed by init()
SessionTimer(minutes, container) ==
    LET d == minutes * SecondsPerMinute
    IN  [duration      |-> d,
         remaining     |-> d,
         isRunning     |-> FALSE,
         timerInterval |-> null,
         intervals     |-> {},
         display       |-> IF container
                           THEN <<toString(floorDiv(d, SecondsPerMinute)), "00">>
                           ELSE <<>>,
         out           |-> <<>>,
         beeps         |-> 0]

(***************************************************************************)
(* The timer as the handlers see it, and the write-back of a handler's     *)
(* result.                                                                 *)
(***************************************************************************)
This ==
    [duration      |-> duration,
     remaining     |-> remaining,
     isRunning     |-> isRunning,
     timerInterval |-> timerInterval,
     intervals     |-> intervals,
     display       |-> display,
     out           |-> <<>>,
     beeps         |-> 0,
     audio         |-> hasAudio,
     threw         |-> FALSE]

Commit(t, op) ==
    /\ duration' = t.duration
    /\ remaining' = t.remaining
    /\ isRunning' = t.isRunning
    /\ timerInterval' = t.timerInterval
    /\ intervals' = t.intervals
    /\ display' = t.display
    /\ out' = t.out
    /\ beeps' = t.beeps
    /\ threw' = t.threw
    /\ last' = [op |-> op, prevOp |-> last.op, pre |-> This]
    /\ ticks' = CASE op = "tick" -> ticks + 1
                  [] op = "reset" -> 0
                  [] OTHER -> ticks
    /\ UNCHANGED <<hasContainer, hasAudio>>
    /\ UNCHANGED <<httpVars, envVars, pageVars, appVars, themeVars, draftVars,
                   activityVars, formVars, breathVars>>

\* Bound of the model: no further start once remaining is at -MaxOverrun.
CanStart == remaining > -MaxOverrun

TimerInitFor(lengths, containers, audios) ==
    \E minutes \in lengths, container \in containers, audio \in audios :
        LET t == SessionTimer(minutes, container)
        IN  /\ duration = t.duration
            /\ remaining = t.remaining
            /\ isRunning = t.isRunning
            /\ timerInterval = t.timerInterval
            /\ intervals = t.intervals
            /\ display = t.display
            /\ out = t.out
            /\ beeps = t.beeps
            /\ hasContainer = container
            /\ hasAudio = audio
            /\ threw = FALSE
            /\ last = [op |-> "new", prevOp |-> "new", pre |-> t]
            /\ ticks = 0

TimerInit == TimerInitFor(Durations, BOOLEAN, BOOLEAN)

\* click on #startTimer
StartClick == hasContainer /\ CanStart /\ Commit(start(This), "start")

\* click on #pauseTimer
PauseClick == hasContainer /\ Commit(pause(This), "pause")

\* click on #resetTimer
ResetClick == hasContainer /\ Commit(reset(This), "reset")

\* Ctrl/Cmd + Shift + T
ToggleKey ==
    IF isRunning
    THEN Commit(pause(This), "pause")
    ELSE CanStart /\ Commit(start(This), "start")

\* the host runs the callback of a live interval
Tick == \E id \in intervals : Commit(tick(This), "tick")

(***************************************************************************)
(* localStorage and the JavaScript conversions applied to its values.      *)
(***************************************************************************)
\* the open tabs of the site, which share one localStorage
Tabs == 1..MaxTabs

\* new Date().toDateString() of the days the model runs through
Days == <<"Thu Oct 29 2026", "Fri Oct 30 2026">>

activeTimeKey(dateString) == "activeTime_" \o dateString

StorageKeys ==
    {"lastReminderTime", "gentleMode", "highContrast", "theme", "checkinDraft",
     "lastMood", "lastMoodTime"}
        \cup {activeTimeKey(Days[d]) : d \in DOMAIN Days}

\* getItem of a key that is not stored returns null
Null == [has |-> FALSE, value |-> <<>>]

Item(value) == [has |-> TRUE, value |-> value]

\* localStorage of a first visit
EmptyStorage == [key \in StorageKeys |-> Null]

getItem(store, key) == store[key]

\* setItem stores String(value); the callers below pass the string
setItem(store, key, value) == [store EXCEPT ![key] = Item(value)]

\* String(b) of a boolean
booleanToString(b) == IF b THEN Str("true") ELSE Str("false")

\* The code units StrWhiteSpaceChar matches: white space and line
\* terminators, the 25 of them (tab to carriage return, space, no-break
\* space, U+1680, U+2000 to U+200A, U+2028, U+2029, U+202F, U+205F, U+3000,
\* U+FEFF).
WhiteSpace ==
    (9..13) \cup {32, 160, 5760} \cup (8192..8202)
        \cup {8232, 8233, 8239, 8287, 12288, 65279}

\* s without its leading white space: what parseInt starts to read at, and
\* empty exactly when s.trim() is
RECURSIVE trimStart(_)
trimStart(s) ==
    IF Len(s) > 0 /\ Head(s) \in WhiteSpace THEN trimStart(Tail(s)) ELSE s

\* the value of c as a digit: 0 to 9, a to z or A to Z for 10 to 35; 36 if
\* c is no digit of any radix
digitValue(c) ==
    CASE c \in 48..57 -> c - 48
      [] c \in 97..122 -> c - 87
      [] c \in 65..90 -> c - 55
      [] OTHER -> 36

\* the value of the longest prefix of digits of s; nan if s starts with none
RECURSIVE parseDigits(_, _, _, _)
parseDigits(s, radix, acc, seen) ==
    IF Len(s) > 0 /\ digitValue(Head(s)) < radix
    THEN parseDigits(Tail(s), radix, acc * radix + digitValue(Head(s)), TRUE)
    ELSE [nan |-> ~seen, value |-> acc]

NaN == [nan |-> TRUE, value |-> 0]

\* parseInt(item) with no radix: white space, a sign, then 0x or 0X and
\* hexadecimal digits, or else decimal digits; of null or of a string with no
\* leading integer, NaN
parseInt(item) ==
    IF ~item.has THEN NaN
    ELSE LET t == trimStart(item.value)
             signed == Len(t) > 0 /\ Head(t) \in {charCodeAt("-"), charCodeAt("+")}
             u == IF signed THEN Tail(t) ELSE t
             hex == Len(u) >= 2 /\ SubSeq(u, 1, 2) \in {Str("0x"), Str("0X")}
             r == IF hex
                  THEN parseDigits(SubSeq(u, 3, Len(u)), 16, 0, FALSE)
                  ELSE parseDigits(u, 10, 0, FALSE)
         IN  IF r.nan THEN NaN
             ELSE [nan |-> FALSE,
                   value |-> IF signed /\ Head(t) = charCodeAt("-")
                             THEN -r.value ELSE r.value]

(***************************************************************************)
(* Outbound HTTP requests: main.js ($.ajax) and TherapeuticApp (fetch).    *)
(* The page state the handlers touch is the record h.                      *)
(***************************************************************************)
Statuses == {200, 204, 401, 403, 404, 500}

\* The answers to fetch: its handlers never read the status, one that succeeds
\* and one that fails stand for all.
FetchStatuses == {200, 500}

FetchKinds == {"recordEmotion", "trackActivity"}

StatusesOf(kind) == IF kind \in FetchKinds THEN FetchStatuses ELSE Statuses

Emotions == {"calm", "anxious"}

\* The options of the three .strategy-filter selects besides the empty one.
FilterOptions ==
    [type |-> {"breathing"}, emotion |-> {"anxious"}, duration |-> {"5"}]

NoFilters == [type |-> "", emotion |-> "", duration |-> ""]

\* The message field of the server's mark-tried response.
ServerMessage == "response.message"

\* What the server renders into .strategies-container before any filtering.
ServerRendered == "server-rendered"

\* The anti-forgery token the server rendered into the page, the value of a
\* header set from an undefined variable, and the mark of a request that
\* carries no token at all.
PageToken == "token-of-the-page"

Undefined == "undefined"

NoToken == "no-token"

\* getCSRFToken() that only looks at the meta element.
getCSRFTokenMetaOnly(input, meta) == IF meta THEN PageToken ELSE Undefined

\* getCSRFToken(): the hidden input's value, or else the meta element's content
getCSRFToken(input, meta) ==
    IF input THEN PageToken ELSE IF meta THEN PageToken ELSE Undefined

\* The .strategy-card elements a loaded page of strategies may hold.
Cards == {"", "page 2"}

\* A response body: its Content-Type (ct), whether its text parses as JSON,
\* and what it holds: for JSON, null, an array or an object with its success
\* flag and its results; for text, whether jQuery reads it as markup (it
\* starts with a tag) and the strategy cards find() meets in it; for text and
\* array, whether includes('has-next') holds of it.
NoBody == [ct |-> "text/html", json |-> FALSE, value |-> "text", markup |-> TRUE,
           success |-> FALSE, results |-> "absent", hasNext |-> FALSE, cards |-> ""]

\* a page of HTML, such as the login page a redirect ends on
HtmlPage(hasNext, cards) == [NoBody EXCEPT !.hasNext = hasNext, !.cards = cards]

\* text that is no markup and no selector either, such as a sentence
PlainText == [NoBody EXCEPT !.ct = "text/plain", !.markup = FALSE]

\* announced as JSON, and not JSON
BadJson == [NoBody EXCEPT !.ct = "application/json"]

JsonNull == [NoBody EXCEPT !.ct = "application/json", !.json = TRUE, !.value = "null"]

\* an array of texts, 'has-next' among them or not
JsonArray(hasNext) ==
    [NoBody EXCEPT !.ct = "application/json", !.json = TRUE, !.value = "array",
                   !.hasNext = hasNext]

JsonObject(success, results) ==
    [NoBody EXCEPT !.ct = "application/json", !.json = TRUE, !.value = "object",
                   !.success = success, !.results = results]

\* The results of a filter response: none (or null), an empty array, an
\* array of strategies, an array whose second strategy has no description,
\* and something that is no array and has no length of 0 (an object, a
\* number).
ResultShapes == {"absent", "empty", "some", "partial", "noArray"}

\* Only the parts the handler of the request reads are varied: jQuery hands a
\* body to the success callbacks alone, and only with a status that carries
\* one; fetch's json() reads it whatever the status.
Bodies(kind, status) ==
    CASE kind = "recordEmotion" ->
            {JsonObject(TRUE, "absent"), HtmlPage(FALSE, "")}
      [] kind = "trackActivity" \/ status # 200 ->
            {NoBody}
      [] kind = "quickCheckin" ->
            {JsonObject(success, "absent") : success \in BOOLEAN}
                \cup {JsonNull, JsonArray(FALSE), BadJson, HtmlPage(FALSE, "")}
      [] kind = "filterStrategies" ->
            {JsonObject(TRUE, results) : results \in ResultShapes}
                \cup {JsonNull, JsonArray(FALSE), BadJson, HtmlPage(FALSE, "")}
      [] kind = "loadMore" ->
            {HtmlPage(hasNext, cards) : hasNext \in BOOLEAN, cards \in Cards}
                \cup {JsonArray(hasNext) : hasNext \in BOOLEAN}
                \cup {PlainText, JsonObject(TRUE, "absent"), JsonNull, BadJson}
      [] OTHER ->
            {JsonObject(TRUE, "absent"), JsonNull, JsonArray(FALSE), BadJson,
             HtmlPage(FALSE, "")}

\* showNotification(message, type, duration) of main.js
mainShowNotification(h, message, type) ==
    [h EXCEPT !.notes = Append(@, [message |-> message, type |-> type])]

\* TherapeuticApp.showGentleNotification(message, type = 'info')
showGentleNotification(h, message, type) ==
    [h EXCEPT !.notes = Append(@, [message |-> message, type |-> type])]

\* The ajaxError handler without its branch for status 500.
ajaxErrorNo500(h, status) ==
    IF status = 401
    THEN mainShowNotification(h, "Please log in to continue", "warning")
    ELSE IF status = 403
    THEN mainShowNotification(h, "You don't have permission to do that", "danger")
    ELSE h

\* $(document).ajaxError(...)
ajaxError(h, status) ==
    IF status = 401
    THEN mainShowNotification(h, "Please log in to continue", "warning")
    ELSE IF status = 403
    THEN mainShowNotification(h, "You don't have permission to do that", "danger")
    ELSE IF status = 500
    THEN mainShowNotification(h, "Server error. Please try again later.", "danger")
    ELSE h

\* The window "error" listener of the TherapeuticApp script: every uncaught
\* error of the page ends here.
windowError(h) ==
    IF h.hasApp
    THEN showGentleNotification(h,
            "A gentle error occurred. Please try again or take a break.", "error")
    ELSE h

\* jQuery: a response is a success iff its status is 2xx or 304.
isSuccess(status) == (status >= 200 /\ status < 300) \/ status = 304

\* jQuery hands the success callbacks no data for 204 and 304.
noData(status) == status = 204 \/ status = 304

\* jQuery converts the body by its Content-Type: a body announced as JSON
\* that does not parse makes the request fail, whatever its status.
conversionFails(status, body) == ~noData(status) /\ body.ct = "application/json" /\ ~body.json

\* What the success callback is called with: undefined, null, an object, an
\* array or the text of the body.
dataOf(status, body) == IF noData(status) THEN "undefined" ELSE body.value

\* What .strategies-container shows of the results of a filter.
cardsOf(filter) ==
    "strategies of " \o filter.type \o "/" \o filter.emotion \o "/" \o filter.duration

\* updateStrategiesDisplay(strategies): empties the container, the
\* .mark-tried-btn in it included, and renders the results one by one (the
\* buttons it renders have no click listener). It throws once the container
\* is empty when called with undefined or with what has no forEach, and after
\* the first card when the second strategy has no description.
updateStrategiesDisplay(h, results, filter) ==
    [h EXCEPT !.strategies = CASE results = "empty" -> "No strategies match your filters."
                               [] results = "some" -> cardsOf(filter)
                               [] results = "partial" -> "first of the " \o cardsOf(filter)
                               [] OTHER -> "",
              !.triedAttached = IF h.triedInside THEN FALSE ELSE @]

\* Whether the success callback of the request throws on what it is called
\* with: reading a property of undefined or null, the length of results
\* that are not there, forEach of what is no array, substring of a
\* description that is not there, text jQuery can read neither as markup nor
\* as a selector, includes() of what is neither text nor array.
successThrows(req, status, body) ==
    LET data == dataOf(status, body)
    IN  CASE req.kind = "quickCheckin" -> data \in {"undefined", "null"}
          [] req.kind = "filterStrategies" ->
                data # "object" \/ body.results \notin {"empty", "some"}
          [] req.kind = "markTried" -> data \in {"undefined", "null"}
          [] req.kind = "loadMore" ->
                \/ data \in {"undefined", "null", "object"}
                \/ data = "text" /\ ~body.markup
          [] OTHER -> FALSE

\* The success callback each $.ajax call passes, as far as it runs.
successCallback(h, req, status, body) ==
    LET data == dataOf(status, body)
    IN  CASE req.kind = "quickCheckin" ->
                IF data = "object" /\ body.success
                THEN LET h1 == mainShowNotification(h, "Check-in recorded!", "success")
                     IN  IF h.onDashboard
                         THEN [h1 EXCEPT !.reloadTimers = @ + 1]
                         ELSE h1
                ELSE h
          [] req.kind = "filterStrategies" ->
                IF data \in {"undefined", "null"}
                THEN h
                ELSE updateStrategiesDisplay(
                         h, IF data = "object" THEN body.results ELSE "absent",
                         req.filter)
          [] req.kind = "markTried" ->
                LET h1 == [h EXCEPT !.triedBtn = <<TRUE, "Tried">>]
                IN  CASE data = "object" ->
                            mainShowNotification(h1, ServerMessage, "success")
                      [] data \in {"text", "array"} ->
                            mainShowNotification(h1, Undefined, "success")
                      [] OTHER -> h1
          [] req.kind = "loadMore" ->
                IF successThrows(req, status, body)
                THEN h
                ELSE LET h1 == IF data = "text" /\ body.cards # ""
                               THEN [h EXCEPT !.strategies = @ \o " + " \o body.cards]
                               ELSE h
                     IN  IF body.hasNext
                         THEN [h1 EXCEPT !.loadBtn = [present |-> h.loadBtn.present,
                                                      disabled |-> FALSE,
                                                      html |-> "Load More",
                                                      page |-> req.page]]
                         ELSE [h1 EXCEPT !.loadBtn.present = FALSE]
          [] OTHER -> h

errorCallback(h, req) ==
    IF req.kind = "quickCheckin"
    THEN mainShowNotification(h, "Error recording check-in. Please try again.",
                              "danger")
    ELSE h

completeCallback(h, req) ==
    CASE req.kind = "quickCheckin" ->
            [h EXCEPT !.submitBtn = <<FALSE, req.originalText>>]
      [] req.kind = "filterStrategies" ->
            [h EXCEPT !.loading = FALSE]
      [] OTHER -> h

\* jQuery's done(): success or error callbacks, then the global ajaxError
\* event, then the complete callbacks. A success callback that throws ends
\* done() there: the error is uncaught and the complete callbacks never run.
ajaxDone(h, req, status, body) ==
    IF isSuccess(status) /\ ~conversionFails(status, body)
    THEN IF successThrows(req, status, body)
         THEN windowError(successCallback(h, req, status, body))
         ELSE completeCallback(successCallback(h, req, status, body), req)
    ELSE completeCallback(ajaxError(errorCallback(h, req), status), req)

\* fetch(...).then(response => response.json()).then(data => ...) of
\* recordEmotion: fetch resolves whatever the status; json() rejects on a body
\* that is not JSON and then nothing handles the rejection.
fetchDone(h, req, status, body) ==
    IF body.json
    THEN showGentleNotification(h,
            "Recorded feeling " \o req.emotion \o ". Thank you for checking in.",
            "info")
    ELSE h

\* The required field of a form that was not submitted yet.
Unmarked == [error |-> FALSE, message |-> FALSE]

\* validateForm(event) on a form with one required field holding value:
\* !field.value.trim() is true of the empty string and of white space alone
validateForm(a, value) ==
    IF Len(trimStart(value)) = 0
    THEN showGentleNotification(
             [a EXCEPT !.field = [error |-> TRUE, message |-> TRUE],
                       !.prevented = TRUE],
             "Please fill in all required fields gently", "info")
    ELSE [a EXCEPT !.field = Unmarked, !.prevented = FALSE]

\* The values the required field may hold when its form is submitted: none,
\* a space before a no-break space, a letter.
FieldValues == {<<>>, Str(" ") \o <<160>>, Str("a")}

RandomReminders ==
    <<"Take a moment to notice your breathing.",
      "How are you feeling right now?",
      "Remember to hydrate.",
      "Stretch for a moment if you can.",
      "Your emotions are valid.",
      "Progress, not perfection.",
      "You don't have to do everything at once.">>

\* showRandomReminder(); pick is Math.floor(Math.random() * reminders.length)
showRandomReminder(h, pick) == mainShowNotification(h, RandomReminders[pick + 1], "info")

showScrollReminder(h) ==
    mainShowNotification(
        h, "You've been scrolling for a while. Consider taking a break.", "warning")

\* How far the window may be scrolled, in pixels.
ScrollTops == {500, 501}

\* The reminders of the list that are picked: the first and the last.
ReminderPicks == {0, Len(RandomReminders) - 1}

\* the scroll listener of initGentleReminders, the window being scrolled to
\* scrollTop: lastScrollReminder is 0 when the page is loaded, so the first
\* scroll beyond 500 pixels reminds
scrollHandler(h, scrollTop) ==
    IF ~h.scrollReminded /\ scrollTop > 500
    THEN [showScrollReminder(h) EXCEPT !.scrollReminded = TRUE]
    ELSE h

Page ==
    [requests   |-> requests,
     notes      |-> <<>>,
     submitBtn  |-> submitBtn,
     loading    |-> loading,
     strategies |-> strategies,
     triedBtn   |-> triedBtn,
     loadBtn    |-> loadBtn,
     filters    |-> filters,
     field      |-> formField,
     prevented  |-> FALSE,
     scrollReminded |-> scrollReminded,
     hasApp        |-> hasApp,
     onDashboard   |-> onDashboard,
     triedInside   |-> triedInside,
     triedAttached |-> triedAttached,
     reloadTimers  |-> reloadTimers,
     pulseTimers   |-> pulseTimers]

HttpCommit(h, event) ==
    /\ requests' = h.requests
    /\ notes' = h.notes
    /\ submitBtn' = h.submitBtn
    /\ loading' = h.loading
    /\ strategies' = h.strategies
    /\ triedBtn' = h.triedBtn
    /\ loadBtn' = h.loadBtn
    /\ filters' = h.filters
    /\ formField' = h.field
    /\ scrollReminded' = h.scrollReminded
    /\ triedAttached' = h.triedAttached
    /\ reloadTimers' = h.reloadTimers
    /\ pulseTimers' = h.pulseTimers
    /\ lastHttp' = event
    /\ UNCHANGED <<csrfToken, metaToken, formToken, hasApp, onDashboard, triedInside>>
    /\ UNCHANGED <<timerVars, envVars, appOwn, themeVars, draftVars,
                   activityVars, formVars, breathVars>>

\* A request in flight is told from the others of its kind by a number: the
\* least one that none of them in flight has.
requestId(kind) ==
    LET used == {r.id : r \in {q \in requests : q.kind = kind}}
    IN  CHOOSE id \in 1..(Cardinality(used) + 1) :
            /\ id \notin used
            /\ \A other \in 1..(id - 1) : other \in used

\* $.ajax / fetch: the request goes in flight.
send(h, req) == [h EXCEPT !.requests = @ \cup {req}]

Sent(req) == [event |-> "send", kind |-> req.kind, status |-> 0, converts |-> TRUE]

\* The page as the server renders it and the scripts find it on load.
Fresh ==
    [requests      |-> {},
     notes         |-> <<>>,
     submitBtn     |-> <<FALSE, "Check in">>,
     loading       |-> FALSE,
     strategies    |-> ServerRendered,
     triedBtn      |-> <<FALSE, "Try">>,
     triedAttached |-> TRUE,
     loadBtn       |-> [present |-> TRUE, disabled |-> FALSE, html |-> "Load More",
                        page |-> 1],
     filters       |-> NoFilters,
     field         |-> Unmarked,
     scrollReminded |-> FALSE,
     reloadTimers  |-> 0,
     pulseTimers   |-> 0]

\* location.reload(): everything but the page's address and markup is new
Loaded(h) == [field \in DOMAIN h |->
                 IF field \in DOMAIN Fresh THEN Fresh[field] ELSE h[field]]

HttpInit ==
    /\ csrfToken \in BOOLEAN
    /\ metaToken \in BOOLEAN
    /\ formToken \in BOOLEAN
    /\ formToken => csrfToken
    /\ hasApp \in BOOLEAN
    /\ onDashboard \in BOOLEAN
    /\ triedInside \in BOOLEAN
    /\ nextReq = 0
    /\ lastHttp = [event |-> "none", kind |-> "none", status |-> 0, converts |-> TRUE]
    /\ requests = Fresh.requests
    /\ notes = Fresh.notes
    /\ submitBtn = Fresh.submitBtn
    /\ loading = Fresh.loading
    /\ strategies = Fresh.strategies
    /\ triedBtn = Fresh.triedBtn
    /\ triedAttached = Fresh.triedAttached
    /\ loadBtn = Fresh.loadBtn
    /\ filters = Fresh.filters
    /\ scrollReminded = Fresh.scrollReminded
    /\ reloadTimers = Fresh.reloadTimers
    /\ pulseTimers = Fresh.pulseTimers

\* submit of #quickCheckinForm (through its enabled submit button), its
\* required field holding value: the listener TherapeuticApp put on the form
\* validates it, and whatever it finds the listener main.js delegated to the
\* document sends the form
SubmitQuickCheckin ==
    \E value \in FieldValues :
        /\ nextReq < MaxRequests
        /\ ~submitBtn[1]
        /\ LET req == [id |-> requestId("quickCheckin"), kind |-> "quickCheckin",
                       originalText |-> submitBtn[2],
                       token |-> IF formToken THEN PageToken ELSE NoToken]
               h1 == IF hasApp THEN validateForm(Page, value) ELSE Page
               h2 == [h1 EXCEPT !.submitBtn = <<TRUE, "Processing...">>]
           IN  HttpCommit(send(h2, req), Sent(req))
        /\ nextReq' = nextReq + 1

\* click on an .emotion-btn: TherapeuticApp.recordEmotion, which sends the
\* request when window.csrfToken is set and in either case sets the timeout
\* that is to end the button's pulse
RecordEmotion ==
    \E emotion \in Emotions :
        /\ hasApp
        /\ nextReq < MaxRequests
        /\ pulseTimers < MaxRequests
        /\ LET req == [id |-> requestId("recordEmotion"), kind |-> "recordEmotion",
                       emotion |-> emotion,
                       token |-> IF csrfToken THEN PageToken ELSE Undefined]
               h1 == [Page EXCEPT !.pulseTimers = @ + 1]
           IN  IF csrfToken
               THEN HttpCommit(send(h1, req), Sent(req)) /\ nextReq' = nextReq + 1
               ELSE HttpCommit(h1, [Sent(req) EXCEPT !.event = "unsent"])
                    /\ UNCHANGED nextReq

\* the timeout of recordEmotion fires, 1000 ms after the click: by then the
\* event's currentTarget is null, and reading its classList throws
PulseTimeout ==
    /\ pulseTimers > 0
    /\ HttpCommit(windowError([Page EXCEPT !.pulseTimers = @ - 1]),
                  [event |-> "timeout", kind |-> "recordEmotion", status |-> 0,
                   converts |-> TRUE])
    /\ UNCHANGED nextReq

\* location.reload(), 1000 ms after a recorded check-in on the dashboard: the
\* page is loaded anew, and what was pending or in flight is dropped
PageReload ==
    /\ reloadTimers > 0
    /\ HttpCommit(Loaded(Page),
                  [event |-> "reload", kind |-> "quickCheckin", status |-> 0,
                   converts |-> TRUE])
    /\ UNCHANGED nextReq

\* change of a .strategy-filter to another of its options, the empty one
\* included: filterStrategies(), which reads the three selects and leaves out
\* of the request those that are empty
FilterChange ==
    \E select \in DOMAIN FilterOptions :
      \E option \in (FilterOptions[select] \cup {""}) \ {filters[select]} :
        /\ nextReq < MaxRequests
        /\ LET chosen == [filters EXCEPT ![select] = option]
               req == [id |-> requestId("filterStrategies"), kind |-> "filterStrategies",
                       filter |-> chosen, token |-> NoToken]
               h1 == [Page EXCEPT !.filters = chosen, !.loading = TRUE]
           IN  HttpCommit(send(h1, req), Sent(req))
        /\ nextReq' = nextReq + 1

\* jQuery drops a header whose value is undefined: the request then carries
\* no such header.
headerValue(value) == IF value = Undefined THEN NoToken ELSE value

\* click on the enabled .mark-tried-btn the page was loaded with:
\* markStrategyTried(strategyId, button)
MarkTriedClick ==
    /\ nextReq < MaxRequests
    /\ triedAttached
    /\ ~triedBtn[1]
    /\ LET req == [id |-> requestId("markTried"), kind |-> "markTried",
                   token |-> headerValue(getCSRFToken(csrfToken, metaToken))]
       IN  HttpCommit(send(Page, req), Sent(req))
    /\ nextReq' = nextReq + 1

\* click on the enabled .load-more-strategies button: loadMoreStrategies(button)
LoadMoreClick ==
    /\ nextReq < MaxRequests
    /\ loadBtn.present
    /\ ~loadBtn.disabled
    /\ LET req == [id |-> requestId("loadMore"), kind |-> "loadMore",
                   page |-> loadBtn.page + 1, token |-> NoToken]
           h1 == [Page EXCEPT !.loadBtn.disabled = TRUE,
                              !.loadBtn.html = "Loading..."]
       IN  HttpCommit(send(h1, req), Sent(req))
    /\ nextReq' = nextReq + 1

\* beforeunload after timeSpent ms on the page: sendActivityData when the
\* visit lasted more than 10 seconds
BeforeUnload ==
    \E timeSpent \in {5000, 15000} :
        /\ hasApp
        /\ nextReq < MaxRequests
        /\ LET req == [id |-> requestId("trackActivity"), kind |-> "trackActivity",
                       token |-> IF csrfToken THEN PageToken ELSE Undefined]
           IN  IF timeSpent > 10000 /\ csrfToken
               THEN HttpCommit(send(Page, req), Sent(req)) /\ nextReq' = nextReq + 1
               ELSE HttpCommit(Page, [Sent(req) EXCEPT !.event = "unsent"])
                    /\ UNCHANGED nextReq

\* the timeout (after 10 minutes) or the interval (every 20 minutes) of
\* initGentleReminders fires
ShowRandomReminder ==
    /\ \E pick \in ReminderPicks :
           HttpCommit(showRandomReminder(Page, pick),
                      [event |-> "reminder", kind |-> "none", status |-> 0,
                       converts |-> TRUE])
    /\ UNCHANGED nextReq

\* the window is scrolled
Scroll ==
    /\ \E scrollTop \in ScrollTops :
           HttpCommit(scrollHandler(Page, scrollTop),
                      [event |-> "scroll", kind |-> "none", status |-> 0,
                       converts |-> TRUE])
    /\ UNCHANGED nextReq

\* more than five minutes have passed since the last scroll reminder
ScrollQuietEnds ==
    /\ scrollReminded
    /\ HttpCommit([Page EXCEPT !.scrollReminded = FALSE],
                  [event |-> "elapse", kind |-> "none", status |-> 0,
                   converts |-> TRUE])
    /\ UNCHANGED nextReq

\* the server's response to a request in flight arrives
Respond ==
    \E req \in requests : \E status \in StatusesOf(req.kind) :
      \E body \in Bodies(req.kind, status) :
        LET h1 == [Page EXCEPT !.requests = @ \ {req}]
            event == [event |-> "response", kind |-> req.kind,
                      status |-> status,
                      converts |-> ~conversionFails(status, body)]
        IN  /\ CASE req.kind = "recordEmotion" ->
                        HttpCommit(fetchDone(h1, req, status, body), event)
                 [] req.kind = "trackActivity" ->
                        HttpCommit(h1, event)
                 [] OTHER ->
                        HttpCommit(ajaxDone(h1, req, status, body), event)
            /\ UNCHANGED nextReq

HttpNext ==
    \/ SubmitQuickCheckin
    \/ RecordEmotion
    \/ FilterChange
    \/ MarkTriedClick
    \/ LoadMoreClick
    \/ BeforeUnload
    \/ Respond
    \/ PulseTimeout
    \/ PageReload
    \/ ShowRandomReminder
    \/ Scroll
    \/ ScrollQuietEnds

(***************************************************************************)
(* TherapeuticApp (src/unnamed/part_001): preferences and gentle reminders.*)
(* The app object and the page state it touches are the record a.          *)
(***************************************************************************)
SlotMillis == 5 * 60 * 1000

ReminderPeriod == 15 * 60 * 1000

ReminderMinimum == 30 * 60 * 1000

\* classList.toggle(name, force)
classToggle(classes, name, force) ==
    IF force THEN classes \cup {name} ELSE classes \ {name}

applySettings(a) ==
    LET c1 == IF a.gentleMode THEN a.classes \cup {"gentle-mode"} ELSE a.classes
        c2 == IF a.highContrast THEN c1 \cup {"high-contrast"} ELSE c1
    IN  [a EXCEPT !.classes = c2]

shouldShowReminder(a) ==
    LET lastReminder == getItem(a.store, "lastReminderTime")
    IN  IF lastReminder.has /\ Len(lastReminder.value) > 0
        THEN LET parsed == parseInt(lastReminder)
             IN  ~parsed.nan /\ a.now - parsed.value > ReminderMinimum
        ELSE TRUE

\* setupGentleReminders(): the interval is set to fire every 15 minutes
setupGentleReminders(a) == [a EXCEPT !.due = a.now + ReminderPeriod]

Reminders ==
    <<"Take a deep breath. You're doing great.",
      "Remember to hydrate and stretch.",
      "Progress, not perfection.",
      "It's okay to take breaks.",
      "Be kind to yourself today.">>

\* the interval's callback; pick is Math.floor(Math.random() * reminders.length)
reminderCallback(a, pick) ==
    LET a1 == [a EXCEPT !.due = a.now + ReminderPeriod]
    IN  IF shouldShowReminder(a1)
        THEN showGentleNotification(
                 [a1 EXCEPT !.shown = IF Len(@) < 2 THEN Append(@, a.now)
                                      ELSE <<@[2], a.now>>],
                 Reminders[pick + 1], "info")
        ELSE a1

\* the model's start on the clock of performance.timing. The model's integers
\* are 32 bits wide and hold no time stamp of today, so this clock starts a day
\* before the model does; every start earlier than the slowest load gives
\* the same loadTime sign
Epoch == 24 * 60 * 60 * 1000

\* window.performance.timing while the DOMContentLoaded listeners run: the
\* navigation started loadMillis ago, and the end of the event is not set yet
timing(a, loadMillis) ==
    [navigationStart |-> Epoch + a.now - loadMillis, domContentLoadedEventEnd |-> 0]

\* checkPageLoadTime() (the message ends in a pictograph, left out here)
checkPageLoadTime(a, t) ==
    LET loadTime == t.domContentLoadedEventEnd - t.navigationStart
    IN  IF loadTime > 3000
        THEN showGentleNotification(
                 a, "The page is taking a moment to load. Practice patience.", "info")
        ELSE a

\* new TherapeuticApp() on a freshly loaded page: constructor and init(); the
\* new document has none of the classes, marks and globals of the old one
TherapeuticApp(a, loadMillis) ==
    LET a1 == [a EXCEPT !.gentleMode = (getItem(a.store, "gentleMode") = Item(Str("true"))),
                        !.highContrast = (getItem(a.store, "highContrast") = Item(Str("true"))),
                        !.classes = {},
                        !.wasAway = FALSE,
                        !.field = Unmarked,
                        !.prevented = FALSE]
    IN  checkPageLoadTime(setupGentleReminders(applySettings(a1)), timing(a, loadMillis))

\* toggleGentleMode() that forgets to store the flag.
toggleGentleModeNoStore(a) ==
    LET flag == ~a.gentleMode
        a1 == [a EXCEPT !.gentleMode = flag,
                        !.classes = classToggle(@, "gentle-mode", flag)]
    IN  showGentleNotification(a1,
            IF flag THEN "Gentle mode activated. Take it easy."
            ELSE "Gentle mode deactivated. Proceed mindfully.", "info")

toggleGentleMode(a) ==
    LET flag == ~a.gentleMode
        a1 == [a EXCEPT !.gentleMode = flag,
                        !.classes = classToggle(@, "gentle-mode", flag),
                        !.store = setItem(@, "gentleMode", booleanToString(flag))]
    IN  showGentleNotification(a1,
            IF flag THEN "Gentle mode activated. Take it easy."
            ELSE "Gentle mode deactivated. Proceed mindfully.", "info")

toggleHighContrast(a) ==
    LET flag == ~a.highContrast
    IN  [a EXCEPT !.highContrast = flag,
                  !.classes = classToggle(@, "high-contrast", flag),
                  !.store = setItem(@, "highContrast", booleanToString(flag))]

\* the visibilitychange listener, document.hidden having changed to a.hidden
visibilitychange(a) ==
    IF a.hidden
    THEN [a EXCEPT !.wasAway = TRUE]
    ELSE IF a.wasAway
    THEN [showGentleNotification(a, "Welcome back. Take a moment to re-center.",
                                 "info") EXCEPT !.wasAway = FALSE]
    ELSE a

App(tab) ==
    [gentleMode   |-> gentleMode[tab],
     highContrast |-> highContrast[tab],
     classes      |-> bodyClass[tab],
     store        |-> localStorage,
     now          |-> now,
     due          |-> reminderDue[tab],
     shown        |-> reminderTimes[tab],
     hidden       |-> hidden[tab],
     wasAway      |-> wasAway[tab],
     field        |-> formField,
     prevented    |-> FALSE,
     notes        |-> <<>>]

\* the preferences of a page: its flags, its classes and what is stored
Preferences(a) ==
    [gentleMode |-> a.gentleMode, highContrast |-> a.highContrast,
     classes |-> a.classes, store |-> a.store]

AppCommit(tab, a, op) ==
    /\ gentleMode' = [gentleMode EXCEPT ![tab] = a.gentleMode]
    /\ highContrast' = [highContrast EXCEPT ![tab] = a.highContrast]
    /\ bodyClass' = [bodyClass EXCEPT ![tab] = a.classes]
    /\ localStorage' = a.store
    /\ reminderDue' = [reminderDue EXCEPT ![tab] = a.due]
    /\ reminderTimes' = [reminderTimes EXCEPT ![tab] = a.shown]
    /\ hidden' = [hidden EXCEPT ![tab] = a.hidden]
    /\ wasAway' = [wasAway EXCEPT ![tab] = a.wasAway]
    /\ formField' = a.field
    /\ appNotes' = a.notes
    /\ appLast' = [op |-> op, tab |-> tab, prevented |-> a.prevented,
                   pre |-> Preferences(App(tab))]
    /\ UNCHANGED now
    /\ UNCHANGED <<timerVars, httpVars, pageVars, themeVars, draftVars, activityVars,
                   formVars, breathVars>>

\* the absent value and s
Stored(s) == {Null, Item(s)}

\* What localStorage may hold when the pages are first opened: for each key
\* nothing, or what an earlier page of the scripts (or anything else of the
\* site) stored there.
StoredAtFirst ==
    {[EmptyStorage EXCEPT !["gentleMode"] = g, !["highContrast"] = h] :
        g \in Stored(Str("true")), h \in Stored(Str("false"))}

\* The same for the time of an earlier reminder: nothing, a number, a number
\* behind a no-break space, or something else.
RemindedAtFirst ==
    {[EmptyStorage EXCEPT !["lastReminderTime"] = r] :
        r \in {Null, Item(Str("0")), Item(<<160>> \o Str("0")), Item(Str("soon"))}}

\* the environment of the tabs when they are opened
EnvStart(classes, store) ==
    /\ bodyClass = [tab \in Tabs |-> classes]
    /\ localStorage = store
    /\ now = 0

\* new TherapeuticApp() on the first page load, st being stored
AppLoaded(st) ==
    TherapeuticApp([gentleMode |-> FALSE, highContrast |-> FALSE,
                    classes |-> {}, store |-> st, now |-> 0,
                    due |-> 0, shown |-> <<>>, hidden |-> FALSE, wasAway |-> FALSE,
                    field |-> Unmarked, prevented |-> FALSE, notes |-> <<>>],
                   0)

\* every tab has loaded the page, in front, under the same stored values
AppStart(a) ==
    /\ gentleMode = [tab \in Tabs |-> a.gentleMode]
    /\ highContrast = [tab \in Tabs |-> a.highContrast]
    /\ reminderDue = [tab \in Tabs |-> a.due]
    /\ reminderTimes = [tab \in Tabs |-> a.shown]
    /\ hidden = [tab \in Tabs |-> a.hidden]
    /\ wasAway = [tab \in Tabs |-> a.wasAway]
    /\ formField = a.field
    /\ appNotes = a.notes
    /\ appLast = [op |-> "load", tab |-> 1, prevented |-> FALSE, pre |-> Preferences(a)]

AppInitFor(stores) ==
    \E st \in stores :
        /\ AppStart(AppLoaded(st))
        /\ EnvStart(AppLoaded(st).classes, AppLoaded(st).store)

\* the preferences of an earlier visit, if any
AppInit == AppInitFor(StoredAtFirst)

\* the time of an earlier reminder, if any
ReminderInit == AppInitFor(RemindedAtFirst)

\* the app as constructed for a new visitor, nothing being stored
AppIdle == AppStart(AppLoaded(EmptyStorage))

\* the environment of a new visitor
EnvIdle == EnvStart({}, EmptyStorage)

\* click on a [data-toggle-gentle] element of a tab
ToggleGentleMode ==
    \E tab \in Tabs : AppCommit(tab, toggleGentleMode(App(tab)), "toggleGentleMode")

\* click on a [data-toggle-contrast] element of a tab
ToggleHighContrast ==
    \E tab \in Tabs : AppCommit(tab, toggleHighContrast(App(tab)), "toggleHighContrast")

\* a tab loads the page again, in loadMillis: DOMContentLoaded constructs a
\* new TherapeuticApp
PageLoad ==
    \E tab \in Tabs, loadMillis \in {100, 5000} :
        AppCommit(tab, TherapeuticApp(App(tab), loadMillis), "load")

\* a form of a tab is submitted
ValidateForm ==
    \E tab \in Tabs, value \in FieldValues :
        AppCommit(tab, validateForm(App(tab), value), "validateForm")

\* the user leaves a tab or comes back to it
VisibilityChange ==
    \E tab \in Tabs :
        AppCommit(tab, visibilitychange([App(tab) EXCEPT !.hidden = ~@]),
                  "visibilitychange")

\* five minutes pass without a reminder interval being due
Elapse ==
    /\ now < MaxSlots * SlotMillis
    /\ \A tab \in Tabs : now < reminderDue[tab]
    /\ now' = now + SlotMillis
    /\ appNotes' = <<>>
    /\ appLast' = [op |-> "elapse", tab |-> 1, prevented |-> FALSE,
                   pre |-> Preferences(App(1))]
    /\ UNCHANGED <<gentleMode, highContrast, reminderDue, reminderTimes, hidden,
                   wasAway, formField, localStorage, bodyClass>>
    /\ UNCHANGED <<timerVars, httpVars, pageVars, themeVars, draftVars, activityVars,
                   formVars, breathVars>>

\* the reminder interval of a tab fires
ReminderFire ==
    \E tab \in Tabs :
        /\ now = reminderDue[tab]
        /\ \E pick \in 0..(Len(Reminders) - 1) :
               AppCommit(tab, reminderCallback(App(tab), pick), "reminder")

\* the preferences and the page events, at one moment
AppNext ==
    \/ ToggleGentleMode
    \/ ToggleHighContrast
    \/ PageLoad
    \/ ValidateForm
    \/ VisibilityChange

\* the periodic reminders of pages left open, or loaded again
ReminderNext ==
    \/ Elapse
    \/ ReminderFire
    \/ PageLoad

(***************************************************************************)
(* Theme management (src/unnamed/part_000: initializeTheme).  The page is  *)
(* the record g: its body classes, localStorage and shown notifications.   *)
(***************************************************************************)
\* initializeTheme() that lets the system preference win over the stored theme.
initializeThemeSystemFirst(g, prefers) ==
    LET currentTheme == IF prefers THEN Item(Str("dark")) ELSE getItem(g.store, "theme")
    IN  IF currentTheme = Item(Str("dark"))
        THEN [g EXCEPT !.classes = @ \cup {"dark-theme"}]
        ELSE g

\* initializeTheme() up to the registration of the click listener; a stored
\* empty string is falsy and gives way to the system preference
initializeTheme(g, prefers) ==
    LET savedTheme == getItem(g.store, "theme")
        currentTheme == IF savedTheme.has /\ Len(savedTheme.value) > 0
                        THEN savedTheme
                        ELSE Item(IF prefers THEN Str("dark") ELSE Str("light"))
    IN  IF currentTheme = Item(Str("dark"))
        THEN [g EXCEPT !.classes = @ \cup {"dark-theme"}]
        ELSE g

\* the click listener of #themeToggle
themeToggleClick(g) ==
    LET classes == IF "dark-theme" \in g.classes
                   THEN g.classes \ {"dark-theme"}
                   ELSE g.classes \cup {"dark-theme"}
        theme == IF "dark-theme" \in classes THEN "dark" ELSE "light"
    IN  [g EXCEPT !.classes = classes,
                  !.store = setItem(@, "theme", Str(theme)),
                  !.notes = Append(@, [message |-> "Theme changed to " \o theme \o " mode",
                                       type |-> "success"])]

ThemePage(tab) ==
    [classes |-> themeClasses[tab], store |-> localStorage, notes |-> <<>>]

ThemeCommit(tab, g, op) ==
    /\ themeClasses' = [themeClasses EXCEPT ![tab] = g.classes]
    /\ localStorage' = g.store
    /\ themeNotes' = g.notes
    /\ themeLast' = [op |-> op, tab |-> tab, pre |-> ThemePage(tab),
                     prevOp |-> themeLast.op, prevTab |-> themeLast.tab,
                     prevPre |-> themeLast.pre]
    /\ UNCHANGED <<bodyClass, now, hasThemeToggle>>
    /\ UNCHANGED <<timerVars, httpVars, pageVars, appVars, draftVars, activityVars,
                   formVars, breathVars>>

\* a freshly parsed page: the body carries no theme class yet
FreshPage(store) == [classes |-> {}, store |-> store, notes |-> <<>>]

\* every tab has loaded the page, under the same stored theme and preference
ThemeInitFor(stored, prefer, toggles) ==
    \E theme \in stored, prefers \in prefer, toggle \in toggles :
        LET fresh == FreshPage([EmptyStorage EXCEPT !["theme"] = theme])
            g == initializeTheme(fresh, prefers)
        IN  /\ EnvStart({}, g.store)
            /\ themeClasses = [tab \in Tabs |-> g.classes]
            /\ prefersDark = prefers
            /\ hasThemeToggle = toggle
            /\ themeNotes = g.notes
            /\ themeLast = [op |-> "load", tab |-> 1, pre |-> fresh,
                            prevOp |-> "none", prevTab |-> 1, prevPre |-> fresh]

\* a first visit, or a visit after the toggle stored a theme
ThemeInit == ThemeInitFor({Null, Item(Str("dark")), Item(Str("light"))}, BOOLEAN, BOOLEAN)

\* the theme variables of a first visit, whatever else is stored
ThemeRest ==
    /\ themeClasses = [tab \in Tabs |-> {}]
    /\ prefersDark = FALSE
    /\ hasThemeToggle = TRUE
    /\ themeNotes = <<>>
    /\ themeLast = [op |-> "load", tab |-> 1, pre |-> FreshPage(EmptyStorage),
                    prevOp |-> "none", prevTab |-> 1,
                    prevPre |-> FreshPage(EmptyStorage)]

\* the theme of pages that nobody touches, on a first visit
ThemeIdle == ThemeRest /\ EnvIdle

\* click on #themeToggle in a tab
ThemeClick ==
    /\ hasThemeToggle
    /\ \E tab \in Tabs : ThemeCommit(tab, themeToggleClick(ThemePage(tab)), "click")
    /\ UNCHANGED prefersDark

\* a tab loads the page again, under whatever the system preference then is
ThemeLoad ==
    \E tab \in Tabs, prefers \in BOOLEAN :
        /\ prefersDark' = prefers
        /\ ThemeCommit(tab, initializeTheme(FreshPage(localStorage), prefers), "load")

ThemeNext ==
    \/ ThemeClick
    \/ ThemeLoad

(***************************************************************************)
(* Autosave of the check-in draft (main.js: initCheckinForm, saveDraft).   *)
(* The page is the record f.                                               *)
(***************************************************************************)
AutosaveDelay == 2000

HalfSecond == AutosaveDelay \div 4

\* a variable that was declared and never assigned
undefined == 0

\* The code units encodeURIComponent leaves as they are: letters, digits and
\* - _ . ! ~ * ' ( )
Unreserved ==
    (48..57) \cup (65..90) \cup (97..122)
        \cup {charCodeAt(c) : c \in {"-", "_", ".", "!", "~", "*", "'", "(", ")"}}

HighSurrogates == 55296..56319

LowSurrogates == 56320..57343

\* what encodeURIComponent writes for a code point: itself, or %XX for each
\* byte of its UTF-8 encoding
escape(cp) ==
    LET hex == Str("0123456789ABCDEF")
        percent(byte) == <<charCodeAt("%"), hex[(byte \div 16) + 1], hex[(byte % 16) + 1]>>
        low(n) == 128 + (n % 64)
    IN  CASE cp \in Unreserved -> <<cp>>
          [] cp < 128 -> percent(cp)
          [] cp < 2048 /\ cp >= 128 ->
                percent(192 + (cp \div 64)) \o percent(low(cp))
          [] cp < 65536 /\ cp >= 2048 ->
                percent(224 + (cp \div 4096)) \o percent(low(cp \div 64))
                    \o percent(low(cp))
          [] OTHER ->
                percent(240 + (cp \div 262144)) \o percent(low(cp \div 4096))
                    \o percent(low(cp \div 64)) \o percent(low(cp))

\* A call that throws URIError gives no text.
URIError == [threw |-> TRUE, text |-> <<>>]

\* encodeURIComponent(text), which jQuery (from 3.0 on) leaves as it is: a
\* surrogate pair is one code point, a surrogate on its own throws
RECURSIVE encodeURIComponent(_)
encodeURIComponent(text) ==
    IF Len(text) = 0 THEN [threw |-> FALSE, text |-> <<>>]
    ELSE LET c == Head(text)
             pair == /\ c \in HighSurrogates
                     /\ Len(text) > 1
                     /\ text[2] \in LowSurrogates
             cp == IF pair
                   THEN 65536 + ((c - 55296) * 1024) + (text[2] - 56320)
                   ELSE c
             rest == encodeURIComponent(SubSeq(text, IF pair THEN 3 ELSE 2, Len(text)))
         IN  IF (c \in HighSurrogates \cup LowSurrogates /\ ~pair) \/ rest.threw
             THEN URIError
             ELSE [threw |-> FALSE, text |-> escape(cp) \o rest.text]

\* jQuery's .val() of a text control: elem.value.replace(/\r/g, "")
val(text) == SelectSeq(text, LAMBDA c : c # 13)

\* value.replace(/\r?\n/g, "\r\n"): serialize() sends every line break as CR LF
RECURSIVE normalizeLineBreaks(_)
normalizeLineBreaks(text) ==
    IF Len(text) = 0 THEN <<>>
    ELSE IF Len(text) >= 2 /\ SubSeq(text, 1, 2) = <<13, 10>>
    THEN <<13, 10>> \o normalizeLineBreaks(SubSeq(text, 3, Len(text)))
    ELSE IF Head(text) = 10
    THEN <<13, 10>> \o normalizeLineBreaks(Tail(text))
    ELSE <<Head(text)>> \o normalizeLineBreaks(Tail(text))

\* jQuery.param of the successful controls: name=value pairs joined by "&"
RECURSIVE serialize(_)
serialize(fields) ==
    IF Len(fields) = 0 THEN [threw |-> FALSE, text |-> <<>>]
    ELSE LET name == encodeURIComponent(Head(fields).name)
             value == encodeURIComponent(normalizeLineBreaks(val(Head(fields).value)))
             rest == serialize(Tail(fields))
         IN  IF name.threw \/ value.threw \/ rest.threw
             THEN URIError
             ELSE [threw |-> FALSE,
                   text |-> name.text \o Str("=") \o value.text
                                \o (IF Len(fields) > 1 THEN Str("&") ELSE <<>>)
                                \o rest.text]

\* $('form'): the controls of every form of the page, in document order: the
\* token's hidden input where #quickCheckinForm holds it, then the textarea
formFields(f) ==
    (IF f.formToken
     THEN <<[name |-> Str("csrfmiddlewaretoken"), value |-> Str(PageToken)]>>
     ELSE <<>>)
        \o <<[name |-> Str("notes"), value |-> f.textarea]>>

\* setTimeout returns a handle that no other timeout of the page has had
setTimeout(f, delay) ==
    [f EXCEPT !.timeouts = @ \cup {[id |-> f.nextId, due |-> f.now + delay]},
              !.nextId = @ + 1]

\* clearTimeout of a handle that is not pending does nothing
clearTimeout(f, id) == [f EXCEPT !.timeouts = {t \in @ : t.id # id}]

\* the input listener that does not cancel the pending timeout.
onInputNoClear(f) ==
    LET id == f.nextId
    IN  [setTimeout(f, AutosaveDelay) EXCEPT !.autosaveTimer = id]

\* the input listener of .gentle-textarea: the browser has changed the value
onInput(f) ==
    LET f1 == clearTimeout(f, f.autosaveTimer)
        id == f1.nextId
    IN  [setTimeout(f1, AutosaveDelay) EXCEPT !.autosaveTimer = id]

\* saveDraft(), called by the timeout; a URIError of serialize() ends it
\* before anything is stored and goes to the window's error listener
saveDraft(f) ==
    LET formData == serialize(formFields(f))
    IN  IF formData.threw
        THEN windowError(f)
        ELSE mainShowNotification(
                 [f EXCEPT !.store = setItem(@, "checkinDraft", formData.text)],
                 "Draft saved", "info")

DraftPage ==
    [textarea      |-> textarea,
     autosaveTimer |-> autosaveTimer,
     timeouts      |-> timeouts,
     nextId        |-> draftLast.nextId,
     store         |-> localStorage,
     now           |-> now,
     formToken     |-> formToken,
     hasApp        |-> hasApp,
     scrollReminded |-> scrollReminded,
     notes         |-> <<>>]

\* draftLast also keeps when the last input happened and how often saveDraft
\* has run since.
DraftCommit(f, op) ==
    /\ textarea' = f.textarea
    /\ autosaveTimer' = f.autosaveTimer
    /\ timeouts' = f.timeouts
    /\ localStorage' = f.store
    /\ now' = f.now
    /\ draftNotes' = f.notes
    /\ draftLast' = [op |-> op,
                     nextId |-> f.nextId,
                     pending |-> timeouts,
                     stored |-> getItem(localStorage, "checkinDraft"),
                     typed |-> (op = "input" \/ draftLast.typed),
                     inputAt |-> IF op = "input" THEN now ELSE draftLast.inputAt,
                     saves |-> CASE op = "input" -> 0
                                 [] op = "save" -> draftLast.saves + 1
                                 [] OTHER -> draftLast.saves]
    /\ scrollReminded' = f.scrollReminded
    /\ UNCHANGED bodyClass
    /\ UNCHANGED <<timerVars, httpVars, appVars, themeVars, activityVars,
                   formVars, breathVars>>

\* initCheckinForm() has run; nothing was typed yet
DraftStart ==
    /\ textarea = <<>>
    /\ autosaveTimer = undefined
    /\ timeouts = {}
    /\ draftNotes = <<>>
    /\ draftLast = [op |-> "init", nextId |-> 1, pending |-> {}, stored |-> Null,
                    typed |-> FALSE,
                    inputAt |-> 0, saves |-> 0]

\* The texts that are typed, pasted or set into the textarea: a letter before
\* a space or &, a line feed, a carriage return, e with an acute accent,
\* U+1F600 and its first half alone; longer ones, a low surrogate before a
\* high one among them.
Typed ==
    {Str("a "), Str("a&"), <<10>>, <<13>>, <<233>>, <<55357, 56832>>, <<55357>>,
     <<13, 10, 97>>, <<97, 56832, 55357>>}

\* The value a textarea holds for a text it is given: every CR LF and every
\* CR on its own reads back as one LF.
RECURSIVE textareaValue(_)
textareaValue(text) ==
    IF Len(text) = 0 THEN <<>>
    ELSE IF Len(text) >= 2 /\ SubSeq(text, 1, 2) = <<13, 10>>
    THEN <<10>> \o textareaValue(SubSeq(text, 3, Len(text)))
    ELSE IF Head(text) = 13
    THEN <<10>> \o textareaValue(Tail(text))
    ELSE <<Head(text)>> \o textareaValue(Tail(text))

\* an input event of the textarea: a text is typed, pasted or set and the
\* textarea holds its value, of at most MaxText code units, which may be the
\* value it held; the listener does not look at it
TextInput ==
    /\ draftLast.nextId <= MaxInputs
    /\ \E text \in Typed :
           /\ Len(textareaValue(text)) <= MaxText
           /\ DraftCommit(onInput([DraftPage EXCEPT !.textarea = textareaValue(text)]),
                          "input")

\* an input event that leaves the textarea empty
TextDelete ==
    /\ draftLast.nextId <= MaxInputs
    /\ DraftCommit(onInput([DraftPage EXCEPT !.textarea = textareaValue(<<>>)]), "input")

\* half a second passes; a due timeout may still be waiting for its turn
DraftElapse ==
    /\ now < MaxHalfSeconds * HalfSecond
    /\ DraftCommit([DraftPage EXCEPT !.now = @ + HalfSecond], "elapse")

\* a timeout that is due fires and runs saveDraft
TimeoutFire ==
    \E t \in timeouts :
        /\ t.due <= now
        /\ DraftCommit(saveDraft([DraftPage EXCEPT !.timeouts = @ \ {t}]), "save")

\* the timeout or the interval of initGentleReminders fires on the page of
\* the form
DraftReminder ==
    \E pick \in ReminderPicks :
        DraftCommit(showRandomReminder(DraftPage, pick), "reminder")

\* the page of the form is scrolled; the five minutes after a scroll reminder
\* outlast the clock of the model
DraftScroll ==
    \E scrollTop \in ScrollTops :
        DraftCommit(scrollHandler(DraftPage, scrollTop), "scroll")

DraftNext ==
    \/ TextInput
    \/ TextDelete
    \/ DraftElapse
    \/ TimeoutFire
    \/ DraftReminder
    \/ DraftScroll

(***************************************************************************)
(* Activity tracking (src/unnamed/part_000: initializeActivityTracking).   *)
(* The interval callback of a tab reads the day's counter and writes it    *)
(* back; tabs are separate processes on one localStorage, which gives no   *)
(* lock, so another tab's callback may run between the two.                *)
(***************************************************************************)
\* x || 0 of a number x
orZero(x) == IF x.nan \/ x.value = 0 THEN 0 ELSE x.value

Encouragements ==
    <<"Great focus! You've been learning for a while. Consider taking a short break.",
      "Amazing dedication! Remember to stay hydrated.",
      "You're doing great! How about a quick stretch?",
      "Keep up the good work! Learning takes time and patience.">>

EncouragementEvery == 15

NotReading == [reading |-> FALSE, key |-> "", storedTime |-> 0]

\* the callback up to its read of localStorage
tickBegin(c) ==
    LET key == activeTimeKey(Days[c.today])
        storedTime == orZero(parseInt(getItem(c.store, key)))
    IN  [c EXCEPT !.activeTime = @ + 1,
                  !.read = [reading |-> TRUE, key |-> key, storedTime |-> storedTime]]

\* the callback from its write on; pick is Math.floor(Math.random() * 4)
tickEnd(c, pick) ==
    LET c1 == [c EXCEPT !.store = setItem(@, c.read.key,
                                              Str(toString(c.read.storedTime + 1))),
                        !.read = NotReading]
    IN  IF jsRem(c.activeTime, EncouragementEvery) = 0
        THEN [c1 EXCEPT !.notes = Append(@, [message |-> Encouragements[pick + 1],
                                             type |-> "info"])]
        ELSE c1

\* updateProgressBar(activityId): the bar of the activity gains 25 and the
\* overall bar 5, neither beyond 100
updateProgressBar(c) ==
    LET currentProgress == orZero(parseInt(c.completion.width))
        newProgress == IF currentProgress + 25 < 100 THEN currentProgress + 25 ELSE 100
        overallCurrent == orZero(parseInt(c.completion.overall))
        overallNew == IF overallCurrent + 5 < 100 THEN overallCurrent + 5 ELSE 100
    IN  [c EXCEPT !.completion.width = Item(Str(toString(newProgress)) \o Str("%")),
                  !.completion.overall = Item(Str(toString(overallNew)))]

\* the click listener of .mark-complete; confirmed is what confirm() returns
markCompleteClick(c, confirmed) ==
    IF confirmed
    THEN [c EXCEPT !.completion.html = "Completing...",
                   !.completion.disabled = TRUE,
                   !.completion.pending = @ + 1]
    ELSE c

\* the timeout the click has set, 1000 ms later
markCompleteTimeout(c) ==
    LET c1 == [c EXCEPT !.completion.html = "Completed!",
                        !.completion.pending = @ - 1,
                        !.notes = Append(@, [message |-> "Activity marked as complete! Great job!",
                                             type |-> "success"])]
    IN  updateProgressBar(c1)

\* The moods of the .mood-btn buttons of the page: one that showMoodFeedback
\* has a message for (the text after its pictograph is kept), one that it has
\* none for.
Moods == {"happy", "tired"}

MoodMessages == [mood \in {"happy"} |-> "Great to see you're happy! Keep that positive energy!"]

\* new Date().toISOString() on the days the model runs through, at noon
IsoDays == <<"2026-10-29T12:00:00.000Z", "2026-10-30T12:00:00.000Z">>

saveMood(c, mood) ==
    [c EXCEPT !.store = setItem(setItem(@, "lastMood", Str(mood)),
                                "lastMoodTime", Str(IsoDays[c.today]))]

showMoodFeedback(c, mood) ==
    IF mood \in DOMAIN MoodMessages
    THEN [c EXCEPT !.notes = Append(@, [message |-> MoodMessages[mood], type |-> "info"])]
    ELSE c

\* the click listener of the .mood-btn whose data-mood is mood
moodClick(c, mood) ==
    showMoodFeedback(saveMood([c EXCEPT !.mood = [active |-> mood, input |-> mood]],
                              mood),
                     mood)

ActivityTab(tab) ==
    [activeTime |-> activeTime[tab],
     read       |-> tickRead[tab],
     today      |-> today,
     store      |-> localStorage,
     completion |-> completion,
     mood       |-> moodSelector,
     notes      |-> <<>>]

ActivityKeys == {activeTimeKey(Days[d]) : d \in DOMAIN Days}

\* activityLast also counts the callbacks that have completed, by the key
\* they wrote, and keeps what was stored at first.
ActivityCommit(tab, c, op) ==
    /\ activeTime' = [activeTime EXCEPT ![tab] = c.activeTime]
    /\ tickRead' = [tickRead EXCEPT ![tab] = c.read]
    /\ localStorage' = c.store
    /\ completion' = c.completion
    /\ moodSelector' = c.mood
    /\ activityNotes' = c.notes
    /\ activityLast' =
           [activityLast EXCEPT
               !.op = op,
               !.tab = tab,
               !.pre = localStorage,
               !.begun = IF op = "begin" THEN @ + 1 ELSE @,
               !.done = IF op = "end"
                        THEN [@ EXCEPT ![tickRead[tab].key] = @ + 1]
                        ELSE @]
    /\ UNCHANGED <<today, bodyClass, now>>
    /\ UNCHANGED <<timerVars, httpVars, pageVars, appVars, themeVars, draftVars,
                   formVars, breathVars>>

\* the activity variables of tabs that have loaded the page, first being
\* stored: the bar of the activity is rendered at 50% and the overall bar at
\* 98, and no mood was saved; the first tab has counted minutes ticks before
\* the day began
ActivityStart(first, minutes) ==
    /\ today = 1
    /\ completion = [html |-> "Mark complete", disabled |-> FALSE, pending |-> 0,
                     width |-> Item(Str("50%")), overall |-> Item(Str("98"))]
    /\ moodSelector = [active |-> "", input |-> ""]
    /\ activeTime = [tab \in Tabs |-> IF tab = 1 THEN minutes ELSE 0]
    /\ tickRead = [tab \in Tabs |-> NotReading]
    /\ activityNotes = <<>>
    /\ activityLast = [op |-> "load", tab |-> 1, begun |-> 0,
                       pre |-> first, first |-> first,
                       done |-> [key \in ActivityKeys |-> 0]]

\* every tab has loaded the page; stored is the first day's counter
ActivityInitFor(counters) ==
    \E stored \in counters, minutes \in {0, EncouragementEvery - 2} :
        /\ EnvStart({}, [EmptyStorage EXCEPT ![activeTimeKey(Days[1])] = stored])
        /\ ActivityStart([EmptyStorage EXCEPT ![activeTimeKey(Days[1])] = stored],
                         minutes)

\* nothing stored, a counter of an earlier page, a number behind a no-break
\* space, or something unparsable
ActivityInit ==
    ActivityInitFor({Null, Item(Str("2")), Item(<<160>> \o Str("7")), Item(Str("n/a"))})

\* the activity variables of a first visit
ActivityRest == ActivityStart(EmptyStorage, 0)

\* the interval of a tab fires: the callback runs up to its read
TickBegin ==
    \E tab \in Tabs :
        /\ ~tickRead[tab].reading
        /\ activityLast.begun < MaxTicks
        /\ ActivityCommit(tab, tickBegin(ActivityTab(tab)), "begin")

\* the callback of a tab runs to its end
TickEnd ==
    \E tab \in Tabs :
        /\ tickRead[tab].reading
        /\ \E pick \in 0..(Len(Encouragements) - 1) :
               /\ (jsRem(activeTime[tab], EncouragementEvery) # 0 => pick = 0)
               /\ ActivityCommit(tab, tickEnd(ActivityTab(tab), pick), "end")

\* midnight passes, between the callbacks
Midnight ==
    /\ today < Len(Days)
    /\ \A tab \in Tabs : ~tickRead[tab].reading
    /\ today' = today + 1
    /\ activityLast' = [activityLast EXCEPT !.op = "midnight", !.pre = localStorage]
    /\ activityNotes' = <<>>
    /\ UNCHANGED <<activeTime, tickRead, completion, moodSelector, envVars>>
    /\ UNCHANGED <<timerVars, httpVars, pageVars, appVars, themeVars, draftVars,
                   formVars, breathVars>>

\* click on the enabled .mark-complete button of the page in the first tab
MarkCompleteClick ==
    /\ ~completion.disabled
    /\ \E confirmed \in BOOLEAN :
           ActivityCommit(1, markCompleteClick(ActivityTab(1), confirmed), "click")

\* the timeout of a confirmed click fires
MarkCompleteTimeout ==
    /\ completion.pending > 0
    /\ ActivityCommit(1, markCompleteTimeout(ActivityTab(1)), "completed")

\* click on a .mood-btn of the page in the first tab
MoodClick ==
    \E mood \in Moods :
        ActivityCommit(1, moodClick(ActivityTab(1), mood), "mood")

ActivityNext ==
    \/ TickBegin
    \/ TickEnd
    \/ Midnight
    \/ MarkCompleteClick
    \/ MarkCompleteTimeout
    \/ MoodClick

(***************************************************************************)
(* Form validation (src/unnamed/part_000: initializeFormValidation) of a   *)
(* .needs-validation form with novalidate, whose fields are required       *)
(* .form-control inputs, each in a parent element of its own.  The form is *)
(* the record v.                                                           *)
(***************************************************************************)
Fields == 1..MaxFields

\* field.validationMessage of a required field left empty
ValueMissing == "Please fill out this field."

\* the fields matching :invalid
invalidFields(v) == {f \in Fields : v.value[f] = ""}

checkValidity(v) == invalidFields(v) = {}

\* the submit listener
onSubmit(v) ==
    LET v1 == IF ~checkValidity(v)
              THEN [v EXCEPT
                       !.invalid = [f \in Fields |-> @[f] \/ f \in invalidFields(v)],
                       !.feedback = [f \in Fields |->
                                        IF f \in invalidFields(v)
                                        THEN Append(@[f], ValueMissing)
                                        ELSE @[f]]]
              ELSE [v EXCEPT !.btn = [disabled |-> TRUE, html |-> "Processing..."]]
    IN  [v1 EXCEPT !.validated = TRUE]

\* the input listener of a field: querySelector finds the first feedback only
onFieldInput(v, field) ==
    IF v.invalid[field]
    THEN [v EXCEPT !.invalid[field] = FALSE,
                   !.feedback[field] = IF @ # <<>> THEN Tail(@) ELSE @]
    ELSE v

Form ==
    [value     |-> fieldValue,
     invalid   |-> isInvalid,
     feedback  |-> feedback,
     validated |-> wasValidated,
     btn       |-> formBtn]

FormCommit(v, op, field) ==
    /\ fieldValue' = v.value
    /\ isInvalid' = v.invalid
    /\ feedback' = v.feedback
    /\ wasValidated' = v.validated
    /\ formBtn' = v.btn
    /\ formLast' = [op |-> op, field |-> field, pre |-> Form,
                    failed |-> IF op = "submit" /\ ~checkValidity(Form)
                               THEN formLast.failed + 1
                               ELSE formLast.failed]
    /\ UNCHANGED <<timerVars, httpVars, pageVars, envVars, appVars, themeVars, draftVars,
                   activityVars, breathVars>>

\* the form as rendered, its fields holding the given values
FormStart(values) ==
    /\ fieldValue \in values
    /\ isInvalid = [f \in Fields |-> FALSE]
    /\ feedback = [f \in Fields |-> <<>>]
    /\ wasValidated = FALSE
    /\ formBtn = [disabled |-> FALSE, html |-> "Submit"]
    /\ formLast = [op |-> "load", field |-> 1, failed |-> 0,
                   pre |-> [value |-> fieldValue,
                            invalid |-> [f \in Fields |-> FALSE],
                            feedback |-> [f \in Fields |-> <<>>],
                            validated |-> FALSE,
                            btn |-> [disabled |-> FALSE, html |-> "Submit"]]]

\* an empty form
FormInit == FormStart({[f \in Fields |-> ""]})

\* the form submits: a click on the enabled submit button, or Enter
FormSubmit ==
    /\ ~formBtn.disabled
    /\ formLast.failed < MaxFailedSubmits
    /\ FormCommit(onSubmit(Form), "submit", 1)

\* the user fills in or empties a field: its value changes, then input fires
FieldInput ==
    \E field \in Fields, value \in {"", "x"} :
        /\ ~formBtn.disabled
        /\ value # fieldValue[field]
        /\ FormCommit(onFieldInput([Form EXCEPT !.value[field] = value], field),
                      "input", field)

FormNext ==
    \/ FormSubmit
    \/ FieldInput

(***************************************************************************)
(* Breathing exercise (src/unnamed/part_000: initializeBreathingExercise). *)
(* The closure and the elements it touches are the record e.               *)
(***************************************************************************)
BreathingTime == 60000

QuarterMinute == BreathingTime \div 4

BreatheAnimation == "breathe 4s infinite ease-in-out"

\* stopBreathingExercise() that leaves the auto-stop timeout pending.
stopBreathingExerciseNoClear(e) ==
    LET e1 == [e EXCEPT !.isBreathing = FALSE,
                        !.btn = "Start Breathing Exercise",
                        !.animation = "none",
                        !.instructions = IF @ > 0 THEN @ - 1 ELSE @]
    IN  showNotification(e1, "Great job! Take a moment to notice how you feel.",
                         "success")

\* querySelector finds the first instructions block; a handle is truthy
stopBreathingExercise(e) ==
    LET e1 == [e EXCEPT !.isBreathing = FALSE,
                        !.btn = "Start Breathing Exercise",
                        !.animation = "none",
                        !.instructions = IF @ > 0 THEN @ - 1 ELSE @]
        e2 == IF e1.breathInterval # undefined
              THEN clearTimeout(e1, e1.breathInterval)
              ELSE e1
    IN  showNotification(e2, "Great job! Take a moment to notice how you feel.",
                         "success")

\* the click listener of #startBreathing
breathingClick(e) ==
    IF ~e.isBreathing
    THEN LET e1 == [e EXCEPT !.isBreathing = TRUE,
                             !.btn = "Stop Breathing Exercise",
                             !.animation = BreatheAnimation,
                             !.instructions = @ + 1]
             id == e1.nextId
         IN  [setTimeout(e1, BreathingTime) EXCEPT !.breathInterval = id]
    ELSE stopBreathingExercise(e)

Exercise ==
    [isBreathing    |-> isBreathing,
     breathInterval |-> breathInterval,
     timeouts       |-> breathTimeouts,
     nextId         |-> breathLast.nextId,
     instructions   |-> instructions,
     animation      |-> animation,
     btn            |-> breathBtn,
     now            |-> now,
     out            |-> <<>>]

\* breathLast also keeps when the last exercise started and, for an
\* automatic stop, when the timeout that fired was set.
BreathCommit(e, op, setAt) ==
    /\ isBreathing' = e.isBreathing
    /\ breathInterval' = e.breathInterval
    /\ breathTimeouts' = e.timeouts
    /\ instructions' = e.instructions
    /\ animation' = e.animation
    /\ breathBtn' = e.btn
    /\ now' = e.now
    /\ breathNotes' = e.out
    /\ breathLast' = [op |-> op,
                      nextId |-> e.nextId,
                      wasBreathing |-> isBreathing,
                      startedAt |-> IF op = "click" /\ ~isBreathing
                                    THEN now ELSE breathLast.startedAt,
                      firedSetAt |-> setAt]
    /\ UNCHANGED <<localStorage, bodyClass>>
    /\ UNCHANGED <<timerVars, httpVars, pageVars, appVars, themeVars, draftVars, activityVars,
                   formVars>>

\* initializeBreathingExercise() has run on a page with the button and circle
BreathInit ==
    /\ isBreathing = FALSE
    /\ breathInterval = undefined
    /\ breathTimeouts = {}
    /\ instructions = 0
    /\ animation = ""
    /\ breathBtn = "Start Breathing Exercise"
    /\ breathNotes = <<>>
    /\ breathLast = [op |-> "init", nextId |-> 1, wasBreathing |-> FALSE,
                     startedAt |-> 0, firedSetAt |-> 0]

\* click on #startBreathing: starts an exercise or stops the running one
BreathingClick ==
    /\ isBreathing \/ breathLast.nextId <= MaxExercises
    /\ BreathCommit(breathingClick(Exercise), "click", 0)

\* a quarter of a minute passes; a due timeout may still wait for its turn
BreathElapse ==
    /\ now < MaxQuarters * QuarterMinute
    /\ BreathCommit([Exercise EXCEPT !.now = @ + QuarterMinute], "elapse", 0)

\* an auto-stop timeout that is due fires
BreathTimeout ==
    \E t \in breathTimeouts :
        /\ t.due <= now
        /\ BreathCommit(stopBreathingExercise([Exercise EXCEPT !.timeouts = @ \ {t}]),
                        "timeout", t.due - BreathingTime)

BreathNext ==
    \/ BreathingClick
    \/ BreathElapse
    \/ BreathTimeout

(***************************************************************************)
(* Properties of SessionTimer.                                             *)
(***************************************************************************)
Max(a, b) == IF a >= b THEN a ELSE b

\* mm:ss of a number of seconds: floor(s / 60) and s mod 60, each zero-padded
\* to two digits.
TimeText(s) ==
    <<padStart(toString(s \div SecondsPerMinute), 2, "0"),
      padStart(toString(s % SecondsPerMinute), 2, "0")>>

Messages(o) == {o[i].message : i \in 1..Len(o)}

CompletionMessage == "Session complete! Time for a break!"

\* C1: in every reachable state 0 <= remaining <= duration.
C1_RemainingInRange == 0 <= remaining /\ remaining <= duration

\* C2: once remaining has reached 0 (and until reset() restores it), no tick
\* is delivered and the completion notification and tone are not fired again:
\* a handler that finds remaining <= 0 is never a tick and completes nothing.
C2_CompletedOnce ==
    last.pre.remaining <= 0 =>
        /\ last.op # "tick"
        /\ CompletionMessage \notin Messages(out)
        /\ beeps = 0

\* C3: a repeating tick callback is pending iff isRunning, at most one is
\* pending, tick() is only ever invoked on a running timer, and after pause()
\* or reset() none is pending.
C3_TickPendingIffRunning ==
    /\ Cardinality(intervals) <= 1
    /\ (intervals # {}) <=> isRunning
    /\ last.op = "tick" => last.pre.isRunning
    /\ last.op \in {"pause", "reset"} => intervals = {}

C3_Witness ==
    /\ last.op = "pause"
    /\ last.prevOp = "tick"
    /\ last.pre.isRunning
    /\ last.pre.intervals # {}
    /\ intervals = {}
    /\ ~isRunning

\* C4: after reset(), from whatever state it was called in, remaining equals
\* duration, isRunning is false and the display shows the full duration.
C4_ResetRestores ==
    last.op = "reset" =>
        /\ remaining = duration
        /\ ~isRunning
        /\ display = TimeText(duration)

C4_Witness ==
    /\ last.op = "reset"
    /\ last.pre.isRunning
    /\ last.pre.remaining < duration
    /\ display # <<>>

\* C5: after n ticks delivered since the last reset remaining equals
\* max(0, duration - n).
C5_RemainingAfterTicks == remaining = Max(0, duration - ticks)

\* C6: pause() followed by start() leaves remaining at the value it had when
\* pause() was called, and the timer counts again.
C6_PauseStartResumes ==
    [][(last.op = "pause" /\ last'.op = "start") =>
          /\ remaining' = last.pre.remaining
          /\ isRunning'
          /\ intervals' # {}]_vars

C6_Witness ==
    /\ last.op = "start"
    /\ last.prevOp = "pause"
    /\ ~last.pre.isRunning
    /\ isRunning
    /\ duration = DefaultMinutes * SecondsPerMinute
    /\ remaining = duration - 100

\* C7: pause() on a timer that is not running changes no timer state and
\* shows no notification.
C7_PauseNoOpWhenNotRunning ==
    (last.op = "pause" /\ ~last.pre.isRunning) =>
        /\ out = <<>>
        /\ remaining = last.pre.remaining
        /\ isRunning = last.pre.isRunning
        /\ timerInterval = last.pre.timerInterval
        /\ intervals = last.pre.intervals
        /\ display = last.pre.display

\* C8: start() on a running timer schedules no second callback, leaves
\* remaining and isRunning unchanged and shows no notification.
C8_StartNoOpWhenRunning ==
    (last.op = "start" /\ last.pre.isRunning) =>
        /\ intervals = last.pre.intervals
        /\ timerInterval = last.pre.timerInterval
        /\ Cardinality(intervals) = 1
        /\ remaining = last.pre.remaining
        /\ isRunning
        /\ out = <<>>

C8_Witness ==
    /\ last.op = "start"
    /\ last.pre.isRunning
    /\ last.prevOp = "tick"
    /\ isRunning

\* C9: whenever the display exists, from construction on and for every
\* configured duration, its text is remaining as zero-padded mm:ss.
C9_DisplayFormatsRemaining == display # <<>> => display = TimeText(remaining)

\* C23: "Session paused" is shown only by a pause requested on a running
\* timer; reset() shows "Session reset" alone, and the tick that completes the
\* countdown shows the completion message without "Session paused".
C23_PausedOnlyOnPause ==
    /\ "Session paused" \in Messages(out) =>
           last.op = "pause" /\ last.pre.isRunning
    /\ last.op = "reset" => Messages(out) = {"Session reset"}
    /\ (last.op = "tick" /\ CompletionMessage \in Messages(out)) =>
           Messages(out) = {CompletionMessage}


(***************************************************************************)
(* Properties of the HTTP requests.                                        *)
(***************************************************************************)
ErrorMessages ==
    {"Error recording check-in. Please try again.",
     "Please log in to continue",
     "You don't have permission to do that",
     "Server error. Please try again later."}

SuccessMessages ==
    {"Check-in recorded!", ServerMessage}
    \cup {"Recorded feeling " \o e \o ". Thank you for checking in." : e \in Emotions}

\* C10: a response with a non-2xx status, to whichever of the five requests,
\* shows an error notification and no success confirmation.
C10_NonOkShowsError ==
    (lastHttp.event = "response" /\ lastHttp.status \notin 200..299) =>
        /\ Messages(notes) \cap ErrorMessages # {}
        /\ Messages(notes) \cap SuccessMessages = {}

\* The requests made through $.ajax, whose failures reach the ajaxError handler.
JQueryKinds == {"quickCheckin", "filterStrategies", "markTried", "loadMore"}

\* The notification the spec maps to a failing status, as a list of none or one.
FixedNotification(status) ==
    CASE status = 401 -> <<[message |-> "Please log in to continue", type |-> "warning"]>>
      [] status = 403 -> <<[message |-> "You don't have permission to do that",
                            type |-> "danger"]>>
      [] status = 500 -> <<[message |-> "Server error. Please try again later.",
                            type |-> "danger"]>>
      [] OTHER -> <<>>

GenericCheckinError ==
    <<[message |-> "Error recording check-in. Please try again.", type |-> "danger"]>>

\* jQuery takes the request to have failed: by its status, or by a body that
\* does not convert.
FailedJQuery ==
    /\ lastHttp.event = "response"
    /\ lastHttp.kind \in JQueryKinds
    /\ ~isSuccess(lastHttp.status) \/ ~lastHttp.converts

\* C11 as stated: a failed jQuery request with status 401, 403 or 500 shows
\* exactly the one notification mapped to that status, and no failed request
\* shows any other notification.
C11_OnlyFixedNotification ==
    FailedJQuery => notes = FixedNotification(lastHttp.status)

\* C11 as amended: a failed jQuery request shows the notification mapped to
\* its status (none for a status other than 401, 403, 500), preceded, for the
\* quick check-in submit and whatever the status, by the generic check-in
\* error; nothing else is shown, and a fetch request answered with a status
\* that is not 2xx shows no notification of an error at all.
C11_FixedAfterGeneric ==
    /\ FailedJQuery =>
           notes = (IF lastHttp.kind = "quickCheckin" THEN GenericCheckinError ELSE <<>>)
                   \o FixedNotification(lastHttp.status)
    /\ (/\ lastHttp.event = "response"
        /\ lastHttp.kind \in FetchKinds
        /\ lastHttp.status \notin 200..299) =>
           \A i \in DOMAIN notes : notes[i].type \notin {"danger", "warning", "error"}

C11_Witness ==
    /\ FailedJQuery
    /\ lastHttp.kind = "quickCheckin"
    /\ lastHttp.status = 500
    /\ Len(notes) = 2

\* C12 as stated: every request in flight (POST emotion check-in, POST
\* activity, GET strategy recommendations, POST mark-tried) carries the
\* page's token.
C12_EveryRequestCarriesToken ==
    \A r \in requests :
        r.kind \in {"recordEmotion", "trackActivity", "filterStrategies", "markTried"}
            => r.token = PageToken

\* C12 as amended: the fetch POSTs (emotion check-in, activity) always carry
\* the page's token; the mark-tried POST carries it iff the page renders one
\* (hidden input or meta element) and the quick check-in iff its form holds
\* the hidden input; the GET requests (strategy filter, load-more) carry none.
C12_PostsCarryToken ==
    \A r \in requests :
        /\ r.kind \in {"recordEmotion", "trackActivity"} => r.token = PageToken
        /\ r.kind = "markTried" =>
              (r.token = PageToken <=> (csrfToken \/ metaToken))
        /\ r.kind = "quickCheckin" => (r.token = PageToken <=> formToken)
        /\ r.kind \in {"filterStrategies", "loadMore"} => r.token = NoToken

C12_Witness ==
    /\ \E r \in requests : r.kind = "recordEmotion" /\ r.token = PageToken
    /\ \E r \in requests : r.kind = "markTried" /\ r.token = PageToken
    /\ ~metaToken


FilterInFlight == \E r \in requests : r.kind = "filterStrategies"

\* C19: when the answer to a filter request has been shown and no filter
\* request is in flight any more, the strategies displayed are those of the
\* filter selected last (or the notice that none matches); and the container
\* carries the 'loading' class exactly while a filter request is in flight.
C19_LatestFilterShown ==
    /\ (/\ lastHttp.event = "response"
        /\ lastHttp.kind = "filterStrategies"
        /\ isSuccess(lastHttp.status)
        /\ lastHttp.converts
        /\ ~FilterInFlight) =>
            strategies \in {cardsOf(filters), "No strategies match your filters."}
    /\ loading = FilterInFlight

CheckinInFlight == \E r \in requests : r.kind = "quickCheckin"

\* C20: while a quick check-in request is in flight its submit button is
\* disabled and reads 'Processing...'; when none is in flight the button is
\* enabled and shows the label it had before the first submission.
C20_SubmitButtonRestored ==
    /\ CheckinInFlight => submitBtn = <<TRUE, "Processing...">>
    /\ ~CheckinInFlight => submitBtn = <<FALSE, "Check in">>

\* C18: no SessionTimer operation ends in an error, also where the page has
\* no #sessionTimer container or the browser no audio facility.
C18_NeverEndsInError == ~threw

(***************************************************************************)
(* Properties of TherapeuticApp.                                           *)
(***************************************************************************)

\* C13: any two consecutive periodic reminders of a page are more than 30
\* minutes apart.
C13_RemindersThrottled ==
    \A tab \in Tabs :
        Len(reminderTimes[tab]) = 2 =>
            reminderTimes[tab][2] - reminderTimes[tab][1] > ReminderMinimum

PreferenceKeys == {"gentleMode", "highContrast"}

PreferenceClass(key) == IF key = "gentleMode" THEN "gentle-mode" ELSE "high-contrast"

PreferenceFlag(a, key) == IF key = "gentleMode" THEN a.gentleMode ELSE a.highContrast

ToggledKey == IF appLast.op = "toggleGentleMode" THEN "gentleMode" ELSE "highContrast"

AfterToggle == appLast.op \in {"toggleGentleMode", "toggleHighContrast"}

\* C14 as stated, read on the page whose toggle ran last: both stored values
\* are 'true' or 'false' and equal the in-memory flag and the presence of the
\* body class.
C14_BothStoredAfterToggles ==
    AfterToggle =>
        \A key \in PreferenceKeys :
            /\ getItem(localStorage, key)
                   = Item(booleanToString(PreferenceFlag(App(appLast.tab), key)))
            /\ (PreferenceClass(key) \in bodyClass[appLast.tab])
                   = PreferenceFlag(App(appLast.tab), key)

\* C14: on every open page each flag equals the presence of its body class;
\* after a toggle on a page the flag toggled is negated, its stored value is
\* 'true' or 'false' and equals the flag of that page, and the other flag, its
\* class and its stored value are as before; a TherapeuticApp constructed on a
\* page afterwards has each flag true exactly when 'true' is stored under its
\* key, so it reads back the flags of the page if they were what was stored.
C14_PreferencesRoundTrip ==
    /\ \A tab \in Tabs, key \in PreferenceKeys :
           (PreferenceClass(key) \in bodyClass[tab]) = PreferenceFlag(App(tab), key)
    /\ AfterToggle =>
           /\ PreferenceFlag(App(appLast.tab), ToggledKey)
                  = ~PreferenceFlag(appLast.pre, ToggledKey)
           /\ getItem(localStorage, ToggledKey)
                  = Item(booleanToString(PreferenceFlag(App(appLast.tab), ToggledKey)))
           /\ getItem(localStorage, ToggledKey) \in {Item(Str("true")), Item(Str("false"))}
           /\ \A key \in PreferenceKeys \ {ToggledKey} :
                  /\ PreferenceFlag(App(appLast.tab), key) = PreferenceFlag(appLast.pre, key)
                  /\ (PreferenceClass(key) \in bodyClass[appLast.tab])
                         = (PreferenceClass(key) \in appLast.pre.classes)
                  /\ getItem(localStorage, key) = getItem(appLast.pre.store, key)
    /\ appLast.op = "load" =>
           \A key \in PreferenceKeys :
               /\ PreferenceFlag(App(appLast.tab), key)
                      = (getItem(localStorage, key) = Item(Str("true")))
               /\ getItem(localStorage, key) = getItem(appLast.pre.store, key)
               /\ getItem(appLast.pre.store, key)
                      = Item(booleanToString(PreferenceFlag(appLast.pre, key)))
                    => PreferenceFlag(App(appLast.tab), key) = PreferenceFlag(appLast.pre, key)

\* Two pages were opened with gentle mode stored as on; the second page
\* switched gentle mode off and high contrast on and was then loaded again,
\* while the first page still has the flags it was constructed with.
C14_Witness ==
    /\ appLast.op = "load"
    /\ appLast.tab = 2
    /\ ~gentleMode[2] /\ highContrast[2]
    /\ gentleMode[1] /\ ~highContrast[1]
    /\ getItem(localStorage, "gentleMode") = Item(Str("false"))
    /\ getItem(localStorage, "highContrast") = Item(Str("true"))

(***************************************************************************)
(* Properties of the theme toggle.                                         *)
(***************************************************************************)
DarkIn(classes) == "dark-theme" \in classes

\* C15: after a click on the theme toggle the stored theme is 'dark' or
\* 'light' and is 'dark' exactly when the clicked page's body carries the
\* dark-theme class; two consecutive clicks on a page restore the theme it
\* had; and a page load applies a stored theme whatever the system prefers.
C15_ThemeRoundTrip ==
    /\ themeLast.op = "click" =>
           /\ getItem(localStorage, "theme") \in {Item(Str("dark")), Item(Str("light"))}
           /\ (getItem(localStorage, "theme") = Item(Str("dark")))
                  = DarkIn(themeClasses[themeLast.tab])
           /\ DarkIn(themeClasses[themeLast.tab]) = ~DarkIn(themeLast.pre.classes)
    /\ (themeLast.op = "click" /\ themeLast.prevOp = "click"
           /\ themeLast.tab = themeLast.prevTab) =>
           DarkIn(themeClasses[themeLast.tab]) = DarkIn(themeLast.prevPre.classes)
    /\ (themeLast.op = "load" /\ getItem(themeLast.pre.store, "theme").has) =>
           /\ DarkIn(themeClasses[themeLast.tab])
                  = (getItem(themeLast.pre.store, "theme") = Item(Str("dark")))
           /\ localStorage = themeLast.pre.store

\* A click stored 'light' and the page was then loaded again while the
\* system prefers dark: the page is light.
C15_Witness ==
    /\ themeLast.op = "load" /\ themeLast.prevOp = "click"
    /\ prefersDark
    /\ getItem(localStorage, "theme") = Item(Str("light"))
    /\ ~DarkIn(themeClasses[themeLast.tab])

(***************************************************************************)
(* Properties of the draft autosave.                                       *)
(***************************************************************************)
HasTyped == draftLast.typed

\* what $('form').serialize() gives on the page as it is
Serialized == serialize(formFields(DraftPage))

\* What jQuery's serialize() is known to give for the value of a textarea:
\* pairs of the value and the text that stands for it.
KnownEncodings ==
    {<<Str("a "), Str("a%20")>>,
     <<Str("a&"), Str("a%26")>>,
     <<<<233>>, Str("%C3%A9")>>,
     <<<<55357, 56832>>, Str("%F0%9F%98%80")>>,
     <<<<10>>, Str("%0D%0A")>>,
     <<textareaValue(<<13>>), Str("%0D%0A")>>,
     <<textareaValue(<<13, 10, 97>>), Str("%0D%0Aa")>>}

\* C16: at most one autosave timeout is pending; an input cancels the pending
\* one and leaves its own, due in 2 seconds; saveDraft runs only when 2
\* seconds have passed since the last input, writes the serialized form to
\* 'checkinDraft' (or, where the text holds half a surrogate pair, throws
\* and writes nothing), and has run exactly once since the last input when
\* no timeout is pending any more.
C16_AutosaveDebounced ==
    /\ Cardinality(timeouts) <= 1
    /\ draftLast.op = "input" =>
           /\ timeouts = {[id |-> autosaveTimer, due |-> now + AutosaveDelay]}
           /\ draftLast.pending \cap timeouts = {}
    /\ draftLast.op = "save" =>
           /\ now - draftLast.inputAt >= AutosaveDelay
           /\ \/ /\ ~Serialized.threw
                 /\ getItem(localStorage, "checkinDraft") = Item(Serialized.text)
                 /\ draftNotes = <<[message |-> "Draft saved", type |-> "info"]>>
                 /\ \A known \in KnownEncodings :
                        (textarea = known[1] /\ ~formToken) =>
                            getItem(localStorage, "checkinDraft")
                                = Item(Str("notes=") \o known[2])
              \/ /\ Serialized.threw
                 /\ getItem(localStorage, "checkinDraft") = draftLast.stored
                 /\ "Draft saved" \notin Messages(draftNotes)
    /\ HasTyped =>
           \/ Cardinality(timeouts) = 1 /\ draftLast.saves = 0
           \/ timeouts = {} /\ draftLast.saves = 1

\* A burst of two inputs, the second cancelling the timeout of the first,
\* was saved once; a third input, two seconds later, was saved in its turn
\* over the draft of the first burst.
C16_Witness ==
    /\ draftLast.op = "save"
    /\ textarea = Str("a ")
    /\ getItem(localStorage, "checkinDraft") = Item(Str("notes=a%20"))
    /\ draftLast.stored = Item(Str("notes=%C3%A9"))
    /\ draftLast.nextId = 4
    /\ draftLast.saves = 1
    /\ now = 2 * AutosaveDelay
    /\ timeouts = {}

(***************************************************************************)
(* Properties of the activity counter.                                     *)
(***************************************************************************)
Counter(store, key) == orZero(parseInt(getItem(store, key)))

\* C17: each day's counter is what it was at first (0 if absent or
\* unparsable) plus the number of one-minute ticks completed for that day,
\* by whichever tab; a tick changes no other key.
C17_CounterCountsTicks ==
    /\ \A key \in ActivityKeys :
           Counter(localStorage, key)
               = Counter(activityLast.first, key) + activityLast.done[key]
    /\ activityLast.op = "end" =>
           \A key \in StorageKeys :
               getItem(localStorage, key) # getItem(activityLast.pre, key)
                   => key = activeTimeKey(Days[today])

(***************************************************************************)
(* Properties of the form validation.                                      *)
(***************************************************************************)
\* C21: a field carries an invalid-feedback message only while it is marked
\* is-invalid, and at most one; editing a flagged field removes the mark and
\* every feedback message for it.
C21_FeedbackFollowsMark ==
    /\ \A f \in Fields :
           /\ feedback[f] # <<>> => isInvalid[f]
           /\ Len(feedback[f]) <= 1
    /\ (formLast.op = "input" /\ formLast.pre.invalid[formLast.field]) =>
           /\ ~isInvalid[formLast.field]
           /\ feedback[formLast.field] = <<>>

(***************************************************************************)
(* Properties of the breathing exercise.                                   *)
(***************************************************************************)
\* C22: isBreathing holds exactly when the instructions block is present and
\* the circle is animated; there is at most one instructions block; an
\* auto-stop timeout is pending only while isBreathing; and a timeout that
\* fires stops the exercise that set it, 60 seconds or more after its start.
C22_BreathingConsistent ==
    /\ instructions <= 1
    /\ isBreathing = (instructions = 1)
    /\ isBreathing = (animation = BreatheAnimation)
    /\ Cardinality(breathTimeouts) <= 1
    /\ breathTimeouts # {} => isBreathing
    /\ breathLast.op = "timeout" =>
           /\ breathLast.wasBreathing /\ ~isBreathing
           /\ breathLast.firedSetAt = breathLast.startedAt
           /\ now - breathLast.startedAt >= BreathingTime

\* A first exercise was stopped by a click; a second one, started later, has
\* been stopped by its own timeout.
C22_Witness ==
    /\ breathLast.op = "timeout"
    /\ breathLast.nextId = 3
    /\ breathLast.startedAt > 0
    /\ ~isBreathing /\ instructions = 0 /\ breathTimeouts = {}

\* The page's quiescent HTTP state.
HttpRestWith(inForm, app) ==
    /\ csrfToken = TRUE
    /\ metaToken = FALSE
    /\ formToken = inForm
    /\ hasApp = app
    /\ onDashboard = FALSE
    /\ triedInside = FALSE
    /\ HttpInit

HttpRest == HttpRestWith(TRUE, TRUE)

\* The timer of a page on which it is never started.
TimerRest == TimerInitFor({DefaultMinutes}, {TRUE}, {TRUE})

\* The widgets of the page that nobody touches.
WidgetsRest == FormInit /\ BreathInit

Init == TimerInit /\ HttpRest /\ AppIdle /\ ThemeIdle /\ DraftStart /\ ActivityRest /\ WidgetsRest

Next == StartClick \/ PauseClick \/ ResetClick \/ ToggleKey \/ Tick

\* The session timer alone; the rest of the page stays as loaded.
Spec == Init /\ [][Next]_vars

InitHttp == TimerRest /\ HttpInit /\ AppIdle /\ ThemeIdle /\ DraftStart /\ ActivityRest /\ WidgetsRest

\* The HTTP requests alone.
SpecHttp == InitHttp /\ [][HttpNext]_vars

InitApp == TimerRest /\ HttpRest /\ AppInit /\ ThemeRest /\ DraftStart /\ ActivityRest /\ WidgetsRest

\* TherapeuticApp alone: preferences, page loads and page events of the tabs.
SpecApp == InitApp /\ [][AppNext]_vars

InitReminder == TimerRest /\ HttpRest /\ ReminderInit /\ ThemeRest /\ DraftStart /\ ActivityRest /\ WidgetsRest

\* TherapeuticApp's periodic reminders alone.
SpecReminder == InitReminder /\ [][ReminderNext]_vars

InitTheme == TimerRest /\ HttpRest /\ AppIdle /\ ThemeInit /\ DraftStart /\ ActivityRest /\ WidgetsRest

\* The theme toggle alone.
SpecTheme == InitTheme /\ [][ThemeNext]_vars

\* The textarea's page with and without the token's input in a form, and
\* with and without the TherapeuticApp script.
InitDraft ==
    /\ \E inForm \in BOOLEAN, app \in BOOLEAN : HttpRestWith(inForm, app)
    /\ TimerRest /\ AppIdle /\ ThemeIdle /\ DraftStart /\ ActivityRest /\ WidgetsRest

\* The draft autosave alone.
SpecDraft == InitDraft /\ [][DraftNext]_vars

InitActivity ==
    TimerRest /\ HttpRest /\ AppIdle /\ ThemeRest /\ DraftStart /\ ActivityInit
        /\ WidgetsRest

\* The activity counter alone, ticked by every tab.
SpecActivity == InitActivity /\ [][ActivityNext]_vars

InitForm ==
    TimerRest /\ HttpRest /\ AppIdle /\ ThemeIdle /\ DraftStart /\ ActivityRest
        /\ FormInit /\ BreathInit

\* The form validation alone.
SpecForm == InitForm /\ [][FormNext]_vars

InitBreath ==
    TimerRest /\ HttpRest /\ AppIdle /\ ThemeIdle /\ DraftStart /\ ActivityRest
        /\ FormInit /\ BreathInit

\* The breathing exercise alone.
SpecBreath == InitBreath /\ [][BreathNext]_vars

====
